---- MODULE Spec2Model ----
(***************************************************************************)
(* Device-worker scheduling and batch pipelining of the image background   *)
(* removal backend (backend/workers.py, backend/routes.py,                 *)
(* backend/gpu_manager.py, backend/image_processor.py).                    *)
(*                                                                         *)
(* The asyncio event loop runs one coroutine at a time: a coroutine keeps  *)
(* the loop until it reaches an await that really suspends.  Each action   *)
(* below is the code between two such suspension points.  A put on an      *)
(* unbounded asyncio.Queue and the acquisition of a free asyncio.Lock do   *)
(* not suspend.  process_image_sync runs on executor threads and is        *)
(* interleaved with everything.                                            *)
(***************************************************************************)
EXTENDS Integers, Sequences, FiniteSets, TLC

\* ---------------------------------------------------------------- bounds
MaxGpus == 2        \* hardware configurations explored: 0..MaxGpus devices
MaxBatches == 2     \* batch_start messages accepted on the connection
MaxTasks == 2       \* image uploads accepted on the connection
MaxJobs == 4        \* jobs of a batch that starts fanned out
MaxUploads == 2     \* /api/upload requests
MaxFiles == 3       \* files of the /api/upload-batch request
CHUNK_SIZE == 2     \* files per chunk (108 in upload_images_batch)
MaxImages == 3      \* image ids known to the store and its clients

\* ------------------------------------------------------ program constants
DefaultBatchSize == 20       \* config_data.get("batchSize", 20)
max_retries == 2             \* process_image_sync: max_retries = 2

Gpus == 0 .. (MaxGpus - 1)
Batches == 0 .. (MaxBatches - 1)
Tasks == 0 .. ((IF MaxJobs > MaxTasks THEN MaxJobs ELSE MaxTasks) - 1)
Uploads == 0 .. (MaxUploads - 1)
Files == 0 .. (MaxFiles - 1)
ImageIds == 0 .. (MaxImages - 1)
NoId == -1                   \* an unbound name / Python None for an id

VARIABLES
    NUM_GPUS,                  \* gpu_manager.NUM_GPUS, read once at import
    \* --- the WebSocket client
    cpc,                       \* "idle", "uploading" (between batch_start
                               \* and batch_end), or "free" (any order)
    \* --- websocket_process_images (one connection)
    wsOpen,                    \* the connection accepts sends
    hpc,                       \* handler position: "config", "recv", "closed"
    ws_config,                 \* handler locals bg_color, output_format,
                               \* watermark_option
    batch_counter, task_counter,
    current_batch_images,      \* task ids of the batch being uploaded
    batch_completion_trackers, \* batch id -> tracker
    batch_id,                  \* handler local, shared by every callback
    batch_tracker,             \* handler local (key of the tracker it names)
    \* --- messages the handler and the callbacks have sent
    batch_started, image_received, batch_queued, result_sent,
    batch_complete_sent,
    \* --- workers.py queues and batch_processor
    batch_queue, processing_queue, current_batch_processing,
    bpc,                       \* batch_processor: "get", "wait", "exited"
    batch_completion,          \* [count, total] of the closure cell
    batch_completion_event,    \* is_set() of the closure cell's Event
    \* --- gpu_worker(g)
    wpc, wtask, wpath,
    \* --- process_image_sync calls, by caller
    sync,
    \* --- gpu_manager.py
    instances,                 \* _instances: device key -> handle state
    instance_counter,          \* _instance_counter
    instance_lock,             \* holder of _instance_lock, or NoCaller
    reset_lock,                \* holder of _reset_lock, or NoCaller
    rr_selected,               \* history: GPU -> round-robin selections
    \* --- routes.py: /api/upload and /api/upload-batch
    upc,                       \* request -> "idle", "processing", "done",
                               \* "failed"
    fpc,                       \* process_with_index(idx) -> "absent",
                               \* "pending", "waiting", "processing", "done"
    gpu_semaphores,            \* _gpu_semaphores: GPU -> holder, or NoId
    \* --- routes.py: the chunk loop of /api/upload-batch
    total_files,               \* len(file_data_list), 0 before the request
    chunk_start,               \* the loop variable
    results,                   \* results: "ok" for a result dictionary,
                               \* "error" for one with the key 'error'
    file_result,               \* idx -> what process_with_index(idx)
                               \* returned, "none" before it returns
    bcpc,                      \* upload_images_batch: "idle", "gather",
                               \* "sleep", "done"
    batch_response,            \* the response body
    batch_params,              \* bg_color, output_format, watermark_option
                               \* of upload_images_batch
    reset_all_calls,           \* history: calls of reset_all_gpus
    \* --- storage.py and /api/download
    processed_images,          \* processed_images: the entries of the dict
                               \* in insertion order
    download,                  \* the last /api/download request and its
                               \* response
    \* --- stop_workers
    spc,                       \* "running", "stopping", "stopped"
    \* --- history
    callback_calls,            \* task id -> number of callback invocations
    task_batch,                \* task id -> batch it was fanned out under
    task_worker,               \* task id -> worker that took the job
    stop_in_flight,            \* jobs on workers when stop_workers began
    task_done_calls,           \* task id -> number of task_done calls
    put_order,                 \* jobs in the order they were put on the
                               \* processing queue
    get_order,                 \* jobs in the order workers took them
    callback_owner,            \* batch_processor's local callback: the id of
                               \* the batch whose callback it is bound to
    delivered_to               \* task id -> ids of the batches whose callback
                               \* was called with the job's result

wsVars == <<cpc, wsOpen, hpc, batch_counter, task_counter, current_batch_images,
            batch_completion_trackers, batch_id, batch_tracker>>
ackVars == <<batch_started, image_received, batch_queued>>
outVars == <<result_sent, batch_complete_sent>>
coordVars == <<current_batch_processing, bpc, batch_completion,
               batch_completion_event, callback_owner>>
workerVars == <<wpc, wtask, wpath>>
histVars == <<callback_calls, task_batch, task_worker, stop_in_flight,
              task_done_calls, put_order, get_order, delivered_to>>
gpuVars == <<instances, instance_counter, instance_lock, reset_lock,
             rr_selected>>
devVars == <<sync, gpuVars>>
routeVars == <<upc, fpc, gpu_semaphores>>
storeVars == <<processed_images, download>>
chunkVars == <<total_files, chunk_start, results, file_result, bcpc,
               batch_response, batch_params, reset_all_calls>>
pipeVars == <<wsVars, ackVars, outVars, batch_queue, processing_queue,
              coordVars, workerVars, spc, histVars>>
vars == <<NUM_GPUS, ws_config, pipeVars, devVars, routeVars, storeVars, chunkVars>>

Workers == 0 .. (NUM_GPUS - 1)

\* Queue items.  A job is the tuple gpu_worker unpacks; None is the sentinel.
\* ------------------------------------------------- processing parameters
\* backgroundColor, fileType and watermark as a client sends them; Absent
\* for a key the message does not carry.
Absent == "absent"
NoParams == [bg |-> Absent, ft |-> Absent, wm |-> Absent]

\* The defaults of config_data.get and form_data.get.
DefaultConfig == [bg |-> "white", ft |-> "JPEG", wm |-> "none"]

\* Parameter sets clients send: the defaults, valid values in another
\* letter case, and one invalid value for each key.
ClientConfigs ==
    {DefaultConfig,
     [bg |-> "BLACK", ft |-> "png", wm |-> "Blog"],
     [bg |-> "purple", ft |-> "JPEG", wm |-> "none"],
     [bg |-> "white", ft |-> "GIF", wm |-> "none"],
     [bg |-> "white", ft |-> "JPEG", wm |-> "stamp"]}

\* Mid-stream config messages: full ones, and one that carries only
\* backgroundColor.
ConfigUpdates ==
    ClientConfigs \cup {[bg |-> "transparent", ft |-> Absent, wm |-> Absent]}

\* str.lower() and str.upper() on the values above.
Lower(v) == CASE v = "BLACK" -> "black"
              [] v = "Blog" -> "blog"
              [] v = "JPEG" -> "jpeg"
              [] v = "GIF" -> "gif"
              [] OTHER -> v
Upper(v) == CASE v = "png" -> "PNG"
              [] v = "white" -> "WHITE"
              [] v = "none" -> "NONE"
              [] v = "purple" -> "PURPLE"
              [] v = "stamp" -> "STAMP"
              [] OTHER -> v

\* "Normalize and validate parameters" of upload_image and
\* upload_images_batch.
Normalize(c) == [bg |-> Lower(c.bg), ft |-> Upper(c.ft), wm |-> Lower(c.wm)]

ValidParams(c) ==
    /\ c.bg \in {"transparent", "white", "black"}
    /\ c.ft \in {"PNG", "JPEG"}
    /\ c.wm \in {"none", "blog"}

\* if "backgroundColor" in data: bg_color = data["backgroundColor"], and
\* so on for each key.
Merge(cur, d) ==
    [bg |-> IF d.bg = Absent THEN cur.bg ELSE d.bg,
     ft |-> IF d.ft = Absent THEN cur.ft ELSE d.ft,
     wm |-> IF d.wm = Absent THEN cur.wm ELSE d.wm]

\* ------------------------------------------------------------ queue items
Job(t, params) == [stop |-> FALSE, task |-> t, params |-> params]
NoneJob == [stop |-> TRUE, task |-> NoId, params |-> NoParams]
\* An item of the batch queue: None (stop), the 6-tuple of a batch, or an
\* item that does not unpack into six values (malformed).  An entry of the
\* image list is the task id of a (task_id, image_data, filename) tuple, or
\* BadEntry for an entry that does not unpack into three values.
BadEntry == NoId - 1
Batch(b, imgs, params) ==
    [stop |-> FALSE, malformed |-> FALSE, batch_id |-> b, images |-> imgs,
     params |-> params]
MalformedBatch(b) == [Batch(b, <<>>, NoParams) EXCEPT !.malformed = TRUE]
NoneBatch ==
    [stop |-> TRUE, malformed |-> FALSE, batch_id |-> NoId, images |-> <<>>,
     params |-> NoParams]

NewTracker == [total |-> DefaultBatchSize, completed |-> 0,
               results |-> [ok |-> 0, failed |-> 0]]

\* ------------------------------------------------------ process_image_sync
EngineOutcomes == {"ok", "transient", "runtime", "error"}

IsTransient(o) == o = "transient"

\* The outcome of process_image_sync for the engine outcomes of its
\* attempts (outs[1] is the first attempt's): "returned" or "raised".
RECURSIVE SyncOutcomeFrom(_, _)
SyncOutcomeFrom(outs, attempt) ==
    IF attempt >= max_retries THEN "returned"
    ELSE LET o == outs[attempt + 1] IN
         IF o = "ok" THEN "returned"
         ELSE IF IsTransient(o)
              THEN IF attempt < max_retries - 1
                   THEN SyncOutcomeFrom(outs, attempt + 1)
                   ELSE "raised"
              ELSE "raised"

ProcessImageSyncOutcome(outs) == SyncOutcomeFrom(outs, 0)

\* Callers of process_image_sync: gpu_worker(g), an /api/upload request, a
\* process_with_index task of /api/upload-batch.
WorkerCaller(g) == <<"worker", g>>
UploadCaller(u) == <<"upload", u>>
FileCaller(i) == <<"file", i>>
NoCaller == <<"none", 0>>
Callers == {WorkerCaller(g) : g \in Gpus}
              \cup {UploadCaller(u) : u \in Uploads}
              \cup {FileCaller(i) : i \in Files}

\* Keys of _instances: a GPU index or 'cpu'.
GpuDev(g) == <<"gpu", g>>
CpuDev == <<"cpu", 0>>
NoDev == <<"none", 0>>
Devices == {GpuDev(g) : g \in Gpus} \cup {CpuDev}

\* One call of process_image_sync: its position, its argument gpu_id, the
\* parameters bg_color, output_format and watermark_option (params), the
\* loop variable attempt, get_instance's local gpu_id (sel), the key of the
\* handle get_instance returns (dev); and as history of the call the engine
\* outcomes of its attempts, the device resets it performed, the engine
\* calls it made and whether its last attempt ended with the cache release
\* (synchronize and empty_cache on device gpu_id); failed_dev is the key of
\* the handle on which the attempt before the current one met the transient
\* fault.  The locals end with the
\* call: a finished call keeps its position "returned" or "raised" and its
\* history.
IdleSync == [pc |-> "idle", gpu_id |-> NoId, attempt |-> 0, sel |-> NoId,
             dev |-> NoDev, outcomes |-> <<>>, resets |-> 0,
             dispatches |-> 0, released |-> FALSE, params |-> NoParams,
             failed_dev |-> NoDev]

NewCall(gpu_id, params) ==
    [IdleSync EXCEPT !.pc = "called", !.gpu_id = gpu_id, !.params = params]

\* ------------------------------------------------------------------ Init
\* workers.py and routes.py after import and start_workers.
PipeInitWith(client) ==
    /\ cpc = client
    /\ wsOpen = TRUE /\ hpc = "config"
    /\ ws_config = NoParams
    /\ batch_counter = 0 /\ task_counter = 0
    /\ current_batch_images = <<>>
    /\ batch_completion_trackers = [b \in {} |-> NewTracker]
    /\ batch_id = NoId /\ batch_tracker = NoId
    /\ batch_started = {} /\ image_received = {} /\ batch_queued = {}
    /\ result_sent = {} /\ batch_complete_sent = <<>>
    /\ batch_queue = <<>> /\ processing_queue = <<>>
    /\ current_batch_processing = NoId
    /\ bpc = IF NUM_GPUS > 0 THEN "get" ELSE "absent"
    /\ batch_completion = [count |-> 0, total |-> 0]
    /\ batch_completion_event = FALSE
    /\ wpc = [g \in Gpus |-> IF g < NUM_GPUS THEN "idle" ELSE "absent"]
    /\ wtask = [g \in Gpus |-> NoId]
    /\ wpath = [g \in Gpus |-> "none"]
    /\ spc = "running"
    /\ callback_calls = [t \in Tasks |-> 0]
    /\ task_batch = [t \in Tasks |-> NoId]
    /\ stop_in_flight = {}
    /\ task_done_calls = [t \in Tasks |-> 0]
    /\ task_worker = [t \in Tasks |-> NoId]
    /\ put_order = <<>> /\ get_order = <<>>
    /\ callback_owner = NoId /\ delivered_to = [t \in Tasks |-> {}]

\* The client follows the streaming protocol.
PipeInit == PipeInitWith("idle")

\* storage.py: an entry of processed_images is the image id (the n of
\* "img_n") with the data stored under it; None stands for no entry.
ImageData == ImageIds
NoImage == [id |-> NoId, data |-> NoId]

\* A /api/download exchange: the imageId of the request (NoId when the
\* parameter is absent), the status of the response and the entry its body
\* was taken from.
NoDownload == [imageId |-> NoId, status |-> "none", image |-> NoImage]

\* The body of the /api/upload-batch response.
NoResponse == [results |-> <<>>, total |-> 0, successful |-> 0, failed |-> 0]

\* gpu_manager.py, routes.py and storage.py after import, no request in
\* progress.
DeviceInit ==
    /\ sync = [c \in Callers |-> IdleSync]
    /\ instances = [d \in Devices |-> "absent"]
    /\ instance_counter = 0
    /\ instance_lock = NoCaller /\ reset_lock = NoCaller
    /\ rr_selected = [g \in Gpus |-> 0]
    /\ upc = [u \in Uploads |-> "idle"]
    /\ fpc = [i \in Files |-> "absent"]
    /\ gpu_semaphores = [g \in Gpus |-> NoId]
    /\ processed_images = <<>>
    /\ download = NoDownload
    /\ total_files = 0 /\ chunk_start = 0
    /\ results = <<>>
    /\ file_result = [i \in Files |-> "none"]
    /\ bcpc = "idle"
    /\ batch_response = NoResponse
    /\ batch_params = NoParams
    /\ reset_all_calls = 0

Init ==
    /\ NUM_GPUS \in 0 .. MaxGpus
    /\ PipeInit
    /\ DeviceInit

\* ------------------------------------------------------------ the client
\* The streaming protocol: batch_start, then the images, then batch_end.
\* A free client sends its messages in any order.
ClientMaySend(type) ==
    \/ cpc = "free"
    \/ cpc = "idle" /\ type = "batch_start"
    \/ cpc = "uploading" /\ type \in {"image_metadata", "batch_end"}

ClientSends(type) ==
    /\ ClientMaySend(type)
    /\ cpc' = IF cpc = "free" THEN "free"
              ELSE IF type = "batch_start" THEN "uploading"
              ELSE IF type = "batch_end" THEN "idle"
              ELSE cpc

\* ------------------------------------------- websocket_process_images
\* The first message is the configuration (receive_json): the three
\* parameters are taken as sent.
WsConfigWith(c) ==
    /\ hpc = "config" /\ wsOpen
    /\ hpc' = "recv"
    /\ ws_config' = c
    /\ UNCHANGED <<NUM_GPUS, storeVars, chunkVars, cpc, wsOpen,
                   batch_counter, task_counter, current_batch_images,
                   batch_completion_trackers, batch_id, batch_tracker,
                   ackVars, outVars, batch_queue, processing_queue,
                   coordVars, workerVars, devVars, routeVars, spc, histVars>>

\* A configuration message without the three keys.
WsConfig == WsConfigWith(DefaultConfig)

\* {"type": "config"} inside the loop: the keys the message carries
\* rebind the handler's locals, and config_updated is sent.
WsConfigUpdate(d) ==
    /\ hpc = "recv" /\ wsOpen
    /\ ws_config' = Merge(ws_config, d)
    /\ UNCHANGED <<NUM_GPUS, storeVars, chunkVars, cpc, wsOpen, hpc,
                   batch_counter, task_counter, current_batch_images,
                   batch_completion_trackers, batch_id, batch_tracker,
                   ackVars, outVars, batch_queue, processing_queue,
                   coordVars, workerVars, devVars, routeVars, spc, histVars>>

\* {"type": "batch_start"}
WsBatchStart ==
    /\ hpc = "recv" /\ wsOpen
    /\ ClientSends("batch_start")
    /\ batch_counter < MaxBatches
    /\ batch_id' = batch_counter
    /\ batch_counter' = batch_counter + 1
    /\ current_batch_images' = <<>>
    /\ batch_completion_trackers' =
          [b \in DOMAIN batch_completion_trackers \cup {batch_counter} |->
              IF b = batch_counter THEN NewTracker
              ELSE batch_completion_trackers[b]]
    /\ batch_started' = batch_started \cup {batch_counter}
    /\ UNCHANGED <<NUM_GPUS, ws_config, storeVars, chunkVars, wsOpen, hpc,
                   task_counter, batch_tracker, image_received, batch_queued,
                   outVars, batch_queue, processing_queue, coordVars,
                   workerVars, devVars, routeVars, spc, histVars>>

\* {"type": "image_metadata"} followed by the frame that should carry the
\* bytes; taskId defaults to task_counter.
WsImage ==
    /\ hpc = "recv" /\ wsOpen
    /\ ClientSends("image_metadata")
    /\ task_counter < MaxTasks
    /\ \E binary \in BOOLEAN :
          LET task_id == task_counter IN
          /\ task_counter' = task_counter + 1
          /\ IF binary
             THEN /\ current_batch_images' =
                        Append(current_batch_images, task_id)
                  /\ image_received' = image_received \cup {task_id}
             ELSE UNCHANGED <<current_batch_images, image_received>>
    /\ UNCHANGED <<NUM_GPUS, ws_config, storeVars, chunkVars, wsOpen, hpc,
                   batch_counter, batch_completion_trackers, batch_id,
                   batch_tracker, batch_started, batch_queued, outVars,
                   batch_queue, processing_queue, coordVars, workerVars,
                   devVars, routeVars, spc, histVars>>

\* batchId values a batch_end message carries: the client names the batch
\* it started last, which is also the default batch_counter - 1.
BatchEndIds == {batch_counter - 1}

\* asyncio.Queue.full(): a queue made with maxsize <= 0 is never full, and
\* _batch_queue = asyncio.Queue() has maxsize 0, so put never waits.
QueueFull(q, maxsize) == IF maxsize <= 0 THEN FALSE ELSE Len(q) >= maxsize

BatchQueueFullOne == QueueFull(batch_queue, 1)
BatchQueueFull == QueueFull(batch_queue, 0)

\* {"type": "batch_end"}
WsBatchEnd ==
    /\ hpc = "recv" /\ wsOpen
    /\ ClientSends("batch_end")
    /\ \E bid \in BatchEndIds :
          /\ batch_id' = bid
          /\ IF bid \in DOMAIN batch_completion_trackers
                /\ current_batch_images # <<>>
             THEN /\ ~BatchQueueFull
                  /\ batch_tracker' = bid
                  /\ batch_completion_trackers' =
                        [batch_completion_trackers EXCEPT
                           ![bid].total = Len(current_batch_images)]
                  /\ batch_queue' = Append(batch_queue,
                                       Batch(bid, current_batch_images,
                                             ws_config))
                  /\ current_batch_images' = <<>>
                  /\ batch_queued' = batch_queued \cup {bid}
             ELSE UNCHANGED <<batch_tracker, batch_completion_trackers,
                              batch_queue, current_batch_images,
                              batch_queued>>
    /\ UNCHANGED <<NUM_GPUS, ws_config, storeVars, chunkVars, wsOpen, hpc,
                   batch_counter, task_counter, batch_started, image_received,
                   outVars, processing_queue, coordVars, workerVars, devVars,
                   routeVars, spc, histVars>>

\* websocket.disconnect or {"type": "close"}: the loop is left and the
\* finally block closes the connection; later sends raise.
WsClose ==
    /\ hpc \in {"config", "recv"} /\ wsOpen
    /\ wsOpen' = FALSE /\ hpc' = "closed"
    /\ UNCHANGED <<NUM_GPUS, ws_config, storeVars, chunkVars, cpc,
                   batch_counter, task_counter, current_batch_images,
                   batch_completion_trackers, batch_id, batch_tracker,
                   ackVars, outVars, batch_queue, processing_queue, coordVars,
                   workerVars, devVars, routeVars, spc, histVars>>

\* --------------------------------------------------------- batch_processor
\* The entries of an image list the for loop reaches before it meets one
\* that does not unpack.
GoodPrefix(imgs) ==
    IF \E i \in 1 .. Len(imgs) : imgs[i] = BadEntry
    THEN SubSeq(imgs, 1,
                (CHOOSE i \in 1 .. Len(imgs) :
                    /\ imgs[i] = BadEntry
                    /\ \A j \in 1 .. (i - 1) : imgs[j] # BadEntry) - 1)
    ELSE imgs

\* What the loop does with the item it dequeues: the sentinel ends the
\* loop; an item that does not unpack raises into the outer handler, which
\* sleeps; a batch becomes the current batch, gets a new completion tracker
\* and event, and its images are put on the processing queue with
\* individual_callback, up to the wait on the event or up to the entry that
\* does not unpack, which raises into the inner handler.
CoordTake(item) ==
    /\ batch_queue' = Tail(batch_queue)
    /\ IF item.stop \/ item.malformed
       THEN /\ bpc' = IF item.stop THEN "exited" ELSE "sleeping"
            /\ UNCHANGED <<batch_completion, batch_completion_event,
                           callback_owner, processing_queue, task_batch,
                           put_order, stop_in_flight, task_done_calls>>
       ELSE LET queued == GoodPrefix(item.images) IN
            /\ bpc' = IF queued = item.images THEN "wait" ELSE "failed"
            /\ batch_completion' = [count |-> 0, total |-> Len(item.images)]
            /\ batch_completion_event' = FALSE
            /\ callback_owner' = item.batch_id
            /\ processing_queue' = processing_queue \o
                   [i \in 1 .. Len(queued) |-> Job(queued[i], item.params)]
            /\ task_batch' = [t \in Tasks |->
                   IF \E i \in 1 .. Len(queued) : queued[i] = t
                   THEN item.batch_id ELSE task_batch[t]]
            /\ put_order' = put_order \o queued
            /\ UNCHANGED <<stop_in_flight, task_done_calls>>

\* _current_batch_processing after the loop took item.
CurrentAfter(item) ==
    IF item.stop \/ item.malformed THEN NoId ELSE item.batch_id

\* await _batch_queue.get() returns.
CoordDequeue ==
    /\ bpc = "get" /\ batch_queue # <<>>
    /\ CoordTake(Head(batch_queue))
    /\ current_batch_processing' =
          IF Head(batch_queue).stop \/ Head(batch_queue).malformed
          THEN current_batch_processing
          ELSE Head(batch_queue).batch_id
    /\ UNCHANGED <<NUM_GPUS, ws_config, storeVars, chunkVars, wsVars, ackVars,
                   outVars, workerVars, devVars, routeVars, spc,
                   callback_calls, delivered_to, task_worker, get_order>>

\* The loop is back at its top with no batch in hand: it waits for an item,
\* or takes the next item at once when the batch queue holds one (get does
\* not suspend on a non-empty queue).
CoordLoop ==
    /\ IF batch_queue = <<>>
       THEN /\ bpc' = "get"
            /\ current_batch_processing' = NoId
            /\ UNCHANGED <<batch_queue, batch_completion,
                           batch_completion_event, callback_owner,
                           processing_queue, task_batch, put_order,
                           stop_in_flight, task_done_calls>>
       ELSE /\ CoordTake(Head(batch_queue))
            /\ current_batch_processing' = CurrentAfter(Head(batch_queue))
    /\ UNCHANGED <<NUM_GPUS, ws_config, storeVars, chunkVars, wsVars, ackVars,
                   outVars, workerVars, devVars, routeVars, spc,
                   callback_calls, delivered_to, task_worker, get_order>>

\* batch_processor leaving a batch without the wait on its completion
\* event.
CoordAdvanceEarly == bpc = "wait" /\ CoordLoop

\* await batch_completion_event.wait() returns: the finally block clears
\* the current batch and the loop goes on.
CoordAdvance == bpc = "wait" /\ batch_completion_event /\ CoordLoop

\* The inner handler has logged the exception of the fan-out: the finally
\* block clears the current batch and the loop goes on, in the same run of
\* the coroutine as the fan-out that failed.
CoordFailed == bpc = "failed" /\ CoordLoop

\* The outer handler's asyncio.sleep(0.1) is over.
CoordSlept == bpc = "sleeping" /\ CoordLoop

\* ---------------------------------------------------------------- callbacks
\* batch_result_callback's first two statements, on the tracker the shared
\* name batch_tracker is bound to at the time of the call.
TrackerRecord(trackers, success) ==
    [trackers EXCEPT
       ![batch_tracker].completed = @ + 1,
       ![batch_tracker].results =
           IF success THEN [@ EXCEPT !.ok = @ + 1]
           ELSE [@ EXCEPT !.failed = @ + 1]]

\* The test that decides whether batch_complete is sent.
BatchIsComplete(tr) == tr.completed >= tr.total

BatchCompleteMessage(tr) ==
    [batchId |-> batch_id, total |-> tr.total,
     successful |-> tr.results.ok, failed |-> tr.results.failed]

\* _processing_queue.get() on a queue that holds an item: the item put
\* first is returned and removed.  QueueGetLast takes the item put last.
QueueGetLast(q) == [item |-> q[Len(q)], rest |-> SubSeq(q, 1, Len(q) - 1)]
QueueGet(q) == [item |-> Head(q), rest |-> Tail(q)]

\* batch_processor is in the middle of a run: the event loop runs one
\* coroutine at a time, so no other coroutine is resumed before it
\* suspends.
CoordRunning == bpc = "failed"

\* put wakes the first waiting getter, and the event loop runs what it
\* scheduled in that order: a worker woken by a put takes its item before
\* any continuation scheduled after the put reaches the queue.
GetterWoken == processing_queue # <<>> /\ \E h \in Gpus : wpc[h] = "idle"

\* gpu_worker without its outer handler: an exception that leaves the
\* inner handler ends the worker task.
WorkerLoopHeadUncaught(g, yielded) ==
    IF yielded \/ processing_queue = <<>>
    THEN /\ wpc' = [wpc EXCEPT ![g] = IF yielded THEN "exited" ELSE "idle"]
         /\ wtask' = [wtask EXCEPT ![g] = NoId]
         /\ wpath' = [wpath EXCEPT ![g] = "none"]
         /\ sync' = [sync EXCEPT ![WorkerCaller(g)] = IdleSync]
         /\ UNCHANGED <<processing_queue, task_worker, get_order>>
    ELSE LET got == QueueGet(processing_queue) IN
         /\ processing_queue' = got.rest
         /\ wpath' = [wpath EXCEPT ![g] = "none"]
         /\ IF got.item.stop
            THEN /\ wpc' = [wpc EXCEPT ![g] = "exited"]
                 /\ wtask' = [wtask EXCEPT ![g] = NoId]
                 /\ sync' = [sync EXCEPT ![WorkerCaller(g)] = IdleSync]
                 /\ UNCHANGED <<task_worker, get_order>>
            ELSE /\ wpc' = [wpc EXCEPT ![g] = "processing"]
                 /\ wtask' = [wtask EXCEPT ![g] = got.item.task]
                 /\ task_worker' = [task_worker EXCEPT ![got.item.task] = g]
                 /\ get_order' = Append(get_order, got.item.task)
                 /\ sync' = [sync EXCEPT ![WorkerCaller(g)] =
                               NewCall(g, got.item.params)]

\* The top of gpu_worker's loop for worker g.  After an exception that
\* reached the outer handler (yielded) the worker sleeps first; otherwise
\* get returns at once when the queue holds an item and waits when it is
\* empty.
WorkerLoopHead(g, yielded) ==
    IF yielded \/ processing_queue = <<>>
    THEN /\ wpc' = [wpc EXCEPT ![g] = IF yielded THEN "sleeping" ELSE "idle"]
         /\ wtask' = [wtask EXCEPT ![g] = NoId]
         /\ wpath' = [wpath EXCEPT ![g] = "none"]
         /\ sync' = [sync EXCEPT ![WorkerCaller(g)] = IdleSync]
         /\ UNCHANGED <<processing_queue, task_worker, get_order>>
    ELSE LET got == QueueGet(processing_queue) IN
         /\ processing_queue' = got.rest
         /\ wpath' = [wpath EXCEPT ![g] = "none"]
         /\ IF got.item.stop
            THEN /\ wpc' = [wpc EXCEPT ![g] = "exited"]
                 /\ wtask' = [wtask EXCEPT ![g] = NoId]
                 /\ sync' = [sync EXCEPT ![WorkerCaller(g)] = IdleSync]
                 /\ UNCHANGED <<task_worker, get_order>>
            ELSE /\ wpc' = [wpc EXCEPT ![g] = "processing"]
                 /\ wtask' = [wtask EXCEPT ![g] = got.item.task]
                 /\ task_worker' = [task_worker EXCEPT ![got.item.task] = g]
                 /\ get_order' = Append(get_order, got.item.task)
                 /\ sync' = [sync EXCEPT ![WorkerCaller(g)] =
                               NewCall(g, got.item.params)]

\* await _processing_queue.get() returns for a waiting worker.
WorkerGet(g) ==
    /\ wpc[g] = "idle" /\ processing_queue # <<>> /\ ~CoordRunning
    /\ WorkerLoopHead(g, FALSE)
    /\ UNCHANGED <<NUM_GPUS, ws_config, storeVars, chunkVars, wsVars, ackVars,
                   outVars, batch_queue, coordVars, gpuVars, routeVars, spc,
                   callback_calls, delivered_to, task_batch, put_order,
                   stop_in_flight, task_done_calls>>

\* The outer handler's asyncio.sleep(0.1) is over: back to the top of the
\* loop.
WorkerSlept(g) ==
    /\ wpc[g] = "sleeping" /\ ~GetterWoken /\ ~CoordRunning
    /\ WorkerLoopHead(g, FALSE)
    /\ UNCHANGED <<NUM_GPUS, ws_config, storeVars, chunkVars, wsVars, ackVars,
                   outVars, batch_queue, coordVars, gpuVars, routeVars, spc,
                   callback_calls, delivered_to, task_batch, put_order,
                   stop_in_flight, task_done_calls>>

\* The finally clause of gpu_worker's inner try block, left out.
TaskDoneDropped(g) == UNCHANGED task_done_calls

\* The finally clause of gpu_worker's inner try block:
\* _processing_queue.task_done() for the job the worker holds.
TaskDone(g) ==
    task_done_calls' = [task_done_calls EXCEPT ![wtask[g]] = @ + 1]

\* individual_callback calls the callback batch_processor's local name is
\* bound to at the time of the call.
CallbackCalled(t) == [delivered_to EXCEPT ![t] = @ \cup {callback_owner}]

\* The callback raised inside gpu_worker.  From the try block the except
\* handler builds the failure result and calls the callback again; the
\* connection is closed, so that call records the result and raises too.
\* The exception then leaves the handler: the finally clause, the outer
\* handler, sleep.
CallbackRaised(g, path, trackers, calls) ==
    /\ IF path = "try"
       THEN /\ batch_completion_trackers' = TrackerRecord(trackers, FALSE)
            /\ callback_calls' = [calls EXCEPT ![wtask[g]] = @ + 1]
       ELSE /\ batch_completion_trackers' = trackers
            /\ callback_calls' = calls
    /\ delivered_to' =
          IF callback_calls'[wtask[g]] > callback_calls[wtask[g]]
          THEN CallbackCalled(wtask[g]) ELSE delivered_to
    /\ TaskDone(g)
    /\ WorkerLoopHead(g, TRUE)

\* individual_callback after the batch callback returned: count the job
\* and set the event when the count reaches the total; gpu_worker then
\* calls task_done and loops.
CallbackReturned(g) ==
    /\ ~GetterWoken
    /\ batch_completion' = [batch_completion EXCEPT !.count = @ + 1]
    /\ batch_completion_event' =
          (batch_completion_event
             \/ batch_completion.count + 1 >= batch_completion.total)
    /\ TaskDone(g)
    /\ WorkerLoopHead(g, FALSE)

\* await callback(result): batch_result_callback records the result and
\* sends it.  On an open connection the message goes out and the callback
\* is suspended in the send; on a closed one the send raises.
CallbackInvoke(g, success, path) ==
    LET trackers == TrackerRecord(batch_completion_trackers, success)
        calls == [callback_calls EXCEPT ![wtask[g]] = @ + 1]
    IN  IF wsOpen
        THEN /\ batch_completion_trackers' = trackers
             /\ callback_calls' = calls
             /\ delivered_to' = CallbackCalled(wtask[g])
             /\ result_sent' = result_sent \cup {wtask[g]}
             /\ wpc' = [wpc EXCEPT ![g] = "send_result"]
             /\ wpath' = [wpath EXCEPT ![g] = path]
             /\ sync' = [sync EXCEPT ![WorkerCaller(g)] = IdleSync]
             /\ UNCHANGED <<wtask, processing_queue, task_worker, get_order,
                            task_done_calls>>
        ELSE /\ CallbackRaised(g, path, trackers, calls)
             /\ UNCHANGED result_sent

\* run_in_executor(process_image_sync) completes in gpu_worker(g) with
\* outcome "returned" or "raised".  When it returned, the image is stored
\* and the success result is passed to the callback inside the try block;
\* when it or store_image raised, the except handler passes the failure
\* result.
WorkerFinished(g, outcome) ==
    /\ \E stored \in BOOLEAN :
          LET success == outcome = "returned" /\ stored IN
          /\ outcome = "raised" => stored
          /\ CallbackInvoke(g, success, IF success THEN "try" ELSE "except")
    /\ UNCHANGED <<NUM_GPUS, ws_config, storeVars, chunkVars, cpc, wsOpen,
                   hpc, batch_counter, task_counter, current_batch_images,
                   batch_id, batch_tracker, ackVars, batch_complete_sent,
                   batch_queue, coordVars, gpuVars, routeVars, spc,
                   task_batch, put_order, stop_in_flight>>

\* The worker resumes after the executor thread finished the call.
WorkerProcessed(g) ==
    /\ wpc[g] = "processing" /\ ~CoordRunning
    /\ sync[WorkerCaller(g)].pc \in {"returned", "raised"}
    /\ WorkerFinished(g, sync[WorkerCaller(g)].pc)

\* The same with process_image_sync taken as one step: the engine outcomes
\* of its attempts decide whether the call returned or raised.
WorkerProcessedWhole(g) ==
    /\ wpc[g] = "processing" /\ ~CoordRunning
    /\ sync[WorkerCaller(g)].pc = "called"
    /\ \E outs \in [1 .. max_retries -> EngineOutcomes] :
          WorkerFinished(g, ProcessImageSyncOutcome(outs))

\* The send of the job's result completes: the callback tests the tracker
\* and either sends batch_complete or returns.
WorkerSendResultDone(g) ==
    /\ wpc[g] = "send_result" /\ ~CoordRunning
    /\ LET tr == batch_completion_trackers[batch_tracker] IN
       IF BatchIsComplete(tr)
       THEN IF wsOpen
            THEN /\ batch_complete_sent' =
                       Append(batch_complete_sent, BatchCompleteMessage(tr))
                 /\ wpc' = [wpc EXCEPT ![g] = "send_complete"]
                 /\ UNCHANGED <<batch_completion_trackers, callback_calls,
                                delivered_to, wtask, wpath, processing_queue,
                                sync, batch_completion,
                                batch_completion_event, task_worker,
                                get_order, task_done_calls>>
            ELSE /\ CallbackRaised(g, wpath[g], batch_completion_trackers,
                                   callback_calls)
                 /\ UNCHANGED <<batch_complete_sent, batch_completion,
                                batch_completion_event>>
       ELSE /\ CallbackReturned(g)
            /\ UNCHANGED <<batch_complete_sent, batch_completion_trackers,
                           callback_calls, delivered_to>>
    /\ UNCHANGED <<NUM_GPUS, ws_config, storeVars, chunkVars, cpc, wsOpen,
                   hpc, batch_counter, task_counter, current_batch_images,
                   batch_id, batch_tracker, ackVars, result_sent, batch_queue,
                   current_batch_processing, bpc, callback_owner, gpuVars,
                   routeVars, spc, task_batch, put_order, stop_in_flight>>

\* The send of batch_complete completes and the callback returns.
WorkerSendCompleteDone(g) ==
    /\ wpc[g] = "send_complete" /\ ~CoordRunning
    /\ CallbackReturned(g)
    /\ UNCHANGED <<NUM_GPUS, ws_config, storeVars, chunkVars, wsVars, ackVars,
                   outVars, batch_queue, current_batch_processing, bpc,
                   callback_owner, gpuVars, routeVars, spc, callback_calls,
                   delivered_to, task_batch, put_order, stop_in_flight>>

\* ---------------------------------------------------------- the executor
\* _executor = ThreadPoolExecutor(max_workers=MAX_WORKERS); a submitted call
\* starts when a thread is free and holds it until it returns or raises.
Min(a, b) == IF a <= b THEN a ELSE b

MAX_WORKERS == IF NUM_GPUS > 0 THEN Min(16, NUM_GPUS * 4) ELSE 4

ThreadsRunning ==
    Cardinality({c \in Callers :
        sync[c].pc \notin {"idle", "called", "returned", "raised"}})

SetSync(c, r) == sync' = [sync EXCEPT ![c] = r]

\* The call ends: its locals are gone.
Finished(s, how) ==
    [IdleSync EXCEPT !.pc = how, !.outcomes = s.outcomes,
                     !.resets = s.resets, !.dispatches = s.dispatches,
                     !.released = s.released]

\* if attempt < max_retries - 1
RetriesLeftAlways(s) == s.attempt < max_retries
RetriesLeft(s) == s.attempt < max_retries - 1

\* The branches of the retry loop that run synchronize and empty_cache
\* before they leave it: the success path and the handler of exceptions
\* other than RuntimeError, each under "gpu_id is not None and NUM_GPUS > 0".
\* The RuntimeError handler has no such block.
CacheReleased(s, o) ==
    s.gpu_id # NoId /\ NUM_GPUS > 0 /\ o \in {"ok", "error"}

\* The attempt of call s ends with engine outcome o: success leaves the
\* loop, the transient signature with an attempt left goes to reset_gpu,
\* everything else raises.
AttemptResult(s, o) ==
    LET t == [s EXCEPT !.outcomes = Append(@, o),
                       !.released = CacheReleased(s, o)] IN
    IF o = "ok" THEN Finished(t, "returned")
    ELSE IF IsTransient(o) /\ RetriesLeft(s)
         THEN [t EXCEPT !.pc = "reset"]
         ELSE Finished(t, "raised")

\* The executor starts the call on a free thread: the image is opened
\* (bytes that are no image make the call raise) and the retry loop begins.
ProcessImageSyncStart(c) ==
    LET s == sync[c] IN
    /\ s.pc = "called"
    /\ ThreadsRunning < MAX_WORKERS
    /\ \E readable \in BOOLEAN :
          SetSync(c, IF readable THEN [s EXCEPT !.pc = "get"]
                     ELSE Finished(s, "raised"))
    /\ UNCHANGED <<NUM_GPUS, ws_config, storeVars, chunkVars, pipeVars,
                   routeVars, gpuVars>>

\* ------------------------------------------------------ get_instance
\* The key of _instances the call looks up.
Key(s) == IF NUM_GPUS = 0 THEN CpuDev ELSE GpuDev(s.sel)

\* threading.Lock: acquire goes through when nobody holds the lock.
LockIgnored(lock) == TRUE
LockFree(lock) == lock = NoCaller

\* The top of the retry loop: get_instance(gpu_id) is entered.  Without
\* GPUs the key is 'cpu'; with gpu_id None the thread takes _instance_lock
\* and reads the round-robin counter; otherwise the index is taken modulo
\* NUM_GPUS.
GetInstanceEnter(c) ==
    LET s == sync[c] IN
    /\ s.pc = "get"
    /\ IF NUM_GPUS = 0
       THEN /\ SetSync(c, [s EXCEPT !.pc = "check"])
            /\ UNCHANGED instance_lock
       ELSE IF s.gpu_id = NoId
       THEN /\ LockFree(instance_lock)
            /\ instance_lock' = c
            /\ SetSync(c, [s EXCEPT !.pc = "advance",
                                    !.sel = instance_counter % NUM_GPUS])
       ELSE /\ SetSync(c, [s EXCEPT !.pc = "check",
                                    !.sel = s.gpu_id % NUM_GPUS])
            /\ UNCHANGED instance_lock
    /\ UNCHANGED <<NUM_GPUS, ws_config, storeVars, chunkVars, pipeVars,
                   routeVars, instances, instance_counter, reset_lock,
                   rr_selected>>

\* The counter is advanced and the lock released.
GetInstanceAdvance(c) ==
    LET s == sync[c] IN
    /\ s.pc = "advance"
    /\ instance_counter' = (instance_counter + 1) % NUM_GPUS
    /\ instance_lock' = NoCaller
    /\ rr_selected' = [rr_selected EXCEPT ![s.sel] = @ + 1]
    /\ SetSync(c, [s EXCEPT !.pc = "check"])
    /\ UNCHANGED <<NUM_GPUS, ws_config, storeVars, chunkVars, pipeVars,
                   routeVars, instances, reset_lock>>

\* if key not in _instances
GetInstanceCheck(c) ==
    LET s == sync[c] IN
    /\ s.pc = "check"
    /\ SetSync(c, IF instances[Key(s)] = "absent"
                  THEN [s EXCEPT !.pc = "create"]
                  ELSE [s EXCEPT !.pc = "have", !.dev = Key(s),
                                 !.sel = NoId])
    /\ UNCHANGED <<NUM_GPUS, ws_config, storeVars, chunkVars, pipeVars,
                   routeVars, gpuVars>>

\* _instances[key] = WithoutBG.opensource().  When the construction fails,
\* the CPU branch re-raises; the GPU branch falls back to the 'cpu' handle,
\* constructing it when it does not exist (a failure there leaves
\* get_instance as an exception).
GetInstanceCreate(c) ==
    LET s == sync[c]
        have(d) == [s EXCEPT !.pc = "have", !.dev = d, !.sel = NoId]
    IN
    /\ s.pc = "create"
    /\ \E made, cpu_made \in BOOLEAN :
          IF made
          THEN /\ cpu_made
               /\ instances' = [instances EXCEPT ![Key(s)] = "ready"]
               /\ SetSync(c, have(Key(s)))
          ELSE IF NUM_GPUS = 0
          THEN /\ cpu_made
               /\ SetSync(c, AttemptResult(s, "error"))
               /\ UNCHANGED instances
          ELSE IF instances[CpuDev] # "absent"
          THEN /\ cpu_made
               /\ SetSync(c, have(CpuDev))
               /\ UNCHANGED instances
          ELSE IF cpu_made
          THEN /\ instances' = [instances EXCEPT ![CpuDev] = "ready"]
               /\ SetSync(c, have(CpuDev))
          ELSE /\ SetSync(c, AttemptResult(s, "error"))
               /\ UNCHANGED instances
    /\ UNCHANGED <<NUM_GPUS, ws_config, storeVars, chunkVars, pipeVars,
                   routeVars, instance_counter, instance_lock, reset_lock,
                   rr_selected>>

\* return _instances[key], and remove_background is called on the handle.
\* A handle that reset_gpu left as None makes the attempt fail before the
\* engine is reached.
RemoveBackground(c) ==
    LET s == sync[c] IN
    /\ s.pc = "have"
    /\ SetSync(c, IF instances[s.dev] = "ready"
                  THEN [s EXCEPT !.pc = "engine", !.dispatches = @ + 1]
                  ELSE AttemptResult(s, "error"))
    /\ UNCHANGED <<NUM_GPUS, ws_config, storeVars, chunkVars, pipeVars,
                   routeVars, gpuVars>>

\* remove_background returns or raises.  The CUDA fault exists only where
\* CUDA devices do.
EngineReturns(c) ==
    LET s == sync[c] IN
    /\ s.pc = "engine"
    /\ \E o \in EngineOutcomes :
          /\ IsTransient(o) => NUM_GPUS > 0
          /\ SetSync(c, AttemptResult(s, o))
    /\ UNCHANGED <<NUM_GPUS, ws_config, storeVars, chunkVars, pipeVars,
                   routeVars, gpuVars>>

\* ------------------------------------------------------------ reset_gpu
\* reset_gpu(gpu_id) returns at once for gpu_id None and without GPUs; the
\* loop sleeps and continues with the next attempt.
NextAttempt(s) ==
    [s EXCEPT !.pc = "get", !.attempt = @ + 1, !.dev = NoDev,
              !.failed_dev = s.dev]

ResetGpuSkipped(c) ==
    LET s == sync[c] IN
    /\ s.pc = "reset"
    /\ s.gpu_id = NoId \/ NUM_GPUS = 0
    /\ SetSync(c, NextAttempt(s))
    /\ UNCHANGED <<NUM_GPUS, ws_config, storeVars, chunkVars, pipeVars,
                   routeVars, gpuVars>>

\* with _reset_lock: the caches of the device are cleared and the handle,
\* when the key exists, is deleted and set to None.
ResetGpuEnter(c) ==
    LET s == sync[c] IN
    /\ s.pc = "reset"
    /\ s.gpu_id # NoId /\ NUM_GPUS > 0
    /\ LockFree(reset_lock)
    /\ reset_lock' = c
    /\ instances' = IF instances[GpuDev(s.gpu_id)] = "absent" THEN instances
                    ELSE [instances EXCEPT ![GpuDev(s.gpu_id)] = "none"]
    /\ SetSync(c, [s EXCEPT !.pc = "resetting", !.resets = @ + 1])
    /\ UNCHANGED <<NUM_GPUS, ws_config, storeVars, chunkVars, pipeVars,
                   routeVars, instance_counter, instance_lock, rr_selected>>

\* The handle is recreated (a failure leaves None), the lock is released,
\* the loop sleeps and continues with the next attempt.
ResetGpuExit(c) ==
    LET s == sync[c]
        d == GpuDev(s.gpu_id)
    IN
    /\ s.pc = "resetting"
    /\ \E made \in BOOLEAN :
          instances' = IF instances[d] = "none" /\ made
                       THEN [instances EXCEPT ![d] = "ready"]
                       ELSE instances
    /\ reset_lock' = NoCaller
    /\ SetSync(c, NextAttempt(s))
    /\ UNCHANGED <<NUM_GPUS, ws_config, storeVars, chunkVars, pipeVars,
                   routeVars, instance_counter, instance_lock, rr_selected>>

\* One step of a call with gpu_id None on its executor thread: the device
\* is selected round-robin and reset_gpu(None) returns before its lock.
RoundRobinCallStep(c) ==
    \/ ProcessImageSyncStart(c)
    \/ GetInstanceEnter(c) \/ GetInstanceAdvance(c) \/ GetInstanceCheck(c)
    \/ GetInstanceCreate(c) \/ RemoveBackground(c) \/ EngineReturns(c)
    \/ ResetGpuSkipped(c)

\* One step of a call that names its device (in CPU mode such a call gets
\* None and the 'cpu' handle, and meets no CUDA fault).
DeviceCallStep(c) ==
    \/ ProcessImageSyncStart(c)
    \/ GetInstanceEnter(c) \/ GetInstanceCheck(c)
    \/ GetInstanceCreate(c) \/ RemoveBackground(c) \/ EngineReturns(c)
    \/ ResetGpuEnter(c) \/ ResetGpuExit(c)

\* --------------------------------------------------------------- storage
\* image_id in processed_images
HasImage(image_id) ==
    \E k \in 1 .. Len(processed_images) : processed_images[k].id = image_id

\* processed_images.get(image_id)
get_image(image_id) ==
    IF HasImage(image_id)
    THEN processed_images[CHOOSE k \in 1 .. Len(processed_images) :
                              processed_images[k].id = image_id]
    ELSE NoImage

\* The value of the last key of the dict, None when the dict is empty.
get_latest_image ==
    IF processed_images = <<>> THEN NoImage
    ELSE processed_images[Len(processed_images)]

\* processed_images[image_id] = {...}: a new key goes to the end, an
\* existing key keeps its place and gets the new value.
store_image(image_id, data) ==
    processed_images' =
        IF HasImage(image_id)
        THEN [k \in 1 .. Len(processed_images) |->
                 IF processed_images[k].id = image_id
                 THEN [id |-> image_id, data |-> data]
                 ELSE processed_images[k]]
        ELSE Append(processed_images, [id |-> image_id, data |-> data])

\* A caller of store_image (gpu_worker, upload_image, process_with_index)
\* stores a processed image.
StoreImage(image_id, data) ==
    /\ store_image(image_id, data)
    /\ UNCHANGED <<NUM_GPUS, ws_config, pipeVars, devVars, routeVars,
                   chunkVars, download>>

\* GET /api/download without a fileType override: the entry of imageId
\* when the parameter is given and the lookup finds one, else the latest
\* entry, else 404.
DownloadImage(imageId) ==
    LET by_id == IF imageId # NoId THEN get_image(imageId) ELSE NoImage
        image_data == IF by_id = NoImage THEN get_latest_image ELSE by_id
    IN
    /\ download' = IF image_data = NoImage
                   THEN [imageId |-> imageId, status |-> "404",
                         image |-> NoImage]
                   ELSE [imageId |-> imageId, status |-> "200",
                         image |-> image_data]
    /\ UNCHANGED <<NUM_GPUS, ws_config, pipeVars, devVars, routeVars,
                   chunkVars, processed_images>>

\* ----------------------------------------------------------- /api/upload
\* upload_image: the validated request submits process_image_sync with
\* gpu_id None.  Requests are numbered in the order they arrive.
UploadRequestWith(u, c) ==
    /\ upc[u] = "idle"
    /\ \A v \in Uploads : v < u => upc[v] # "idle"
    /\ IF ValidParams(Normalize(c))
       THEN /\ upc' = [upc EXCEPT ![u] = "processing"]
            /\ SetSync(UploadCaller(u), NewCall(NoId, Normalize(c)))
       ELSE /\ upc' = [upc EXCEPT ![u] = "rejected"]
            /\ UNCHANGED sync
    /\ UNCHANGED <<NUM_GPUS, ws_config, storeVars, chunkVars, pipeVars,
                   gpuVars, fpc, gpu_semaphores>>

\* A request without the three optional fields.
UploadRequest(u) == UploadRequestWith(u, DefaultConfig)

\* The executor call completed: the response is sent (200, or 500 when the
\* call raised).
UploadRespond(u) ==
    LET c == UploadCaller(u) IN
    /\ upc[u] = "processing"
    /\ sync[c].pc \in {"returned", "raised"}
    /\ upc' = [upc EXCEPT ![u] = IF sync[c].pc = "returned" THEN "done"
                                 ELSE "failed"]
    /\ SetSync(c, IdleSync)
    /\ UNCHANGED <<NUM_GPUS, ws_config, storeVars, chunkVars, pipeVars,
                   gpuVars, fpc, gpu_semaphores>>

\* ----------------------------------------------------- /api/upload-batch
\* chunk_end = min(chunk_start + CHUNK_SIZE, total_files)
ChunkEnd(start) == Min(start + CHUNK_SIZE, total_files)

\* The indices of file_data_list[chunk_start:chunk_end].
ChunkFiles(start) == {i \in Files : start <= i /\ i < ChunkEnd(start)}

\* upload_images_batch: the files are read and the loop enters its first
\* chunk.
UploadBatchRequestWith(c) ==
    /\ bcpc = "idle"
    /\ IF ValidParams(Normalize(c))
       THEN /\ \E n \in 1 .. MaxFiles :
                  /\ total_files' = n
                  /\ fpc' = [i \in Files |->
                               IF i < Min(CHUNK_SIZE, n) THEN "pending"
                               ELSE "absent"]
            /\ batch_params' = Normalize(c)
            /\ bcpc' = "gather"
       ELSE /\ bcpc' = "rejected"
            /\ UNCHANGED <<total_files, fpc, batch_params>>
    /\ chunk_start' = 0
    /\ results' = <<>>
    /\ UNCHANGED <<NUM_GPUS, ws_config, storeVars, pipeVars, devVars, upc,
                   gpu_semaphores, file_result, batch_response,
                   reset_all_calls>>

\* A request without the three optional fields.
UploadBatchRequest == UploadBatchRequestWith(DefaultConfig)

\* The device process_with_index(idx) passes on.
FileGpu(i) == IF NUM_GPUS > 0 THEN i % NUM_GPUS ELSE NoId

\* The task enters async with gpu_semaphores[gpu_id] and submits the call,
\* or submits it unguarded in CPU mode.
FileSubmit(i) ==
    /\ fpc' = [fpc EXCEPT ![i] = "processing"]
    /\ SetSync(FileCaller(i), NewCall(FileGpu(i), batch_params))
    /\ gpu_semaphores' = IF NUM_GPUS > 0
                         THEN [gpu_semaphores EXCEPT ![FileGpu(i)] = i]
                         ELSE gpu_semaphores

\* The task runs up to its first suspension: in the executor call, or in
\* the acquire of a semaphore that is held.  The tasks gather created are
\* scheduled together and start in list order.
FileStart(i) ==
    /\ fpc[i] = "pending"
    /\ \A j \in Files : j < i => fpc[j] # "pending"
    /\ IF NUM_GPUS > 0 /\ gpu_semaphores[FileGpu(i)] # NoId
       THEN /\ fpc' = [fpc EXCEPT ![i] = "waiting"]
            /\ UNCHANGED <<sync, gpu_semaphores>>
       ELSE FileSubmit(i)
    /\ UNCHANGED <<NUM_GPUS, ws_config, storeVars, chunkVars, pipeVars,
                   gpuVars, upc>>

\* The semaphore was released: the first waiter gets it.
FileAcquire(i) ==
    /\ fpc[i] = "waiting"
    /\ gpu_semaphores[FileGpu(i)] = NoId
    /\ \A j \in Files :
          (j < i /\ FileGpu(j) = FileGpu(i)) => fpc[j] # "waiting"
    /\ FileSubmit(i)
    /\ UNCHANGED <<NUM_GPUS, ws_config, storeVars, chunkVars, pipeVars,
                   gpuVars, upc>>

\* The executor call completed: the semaphore is released and the task
\* returns its result or error dictionary.  The task is resumed by a
\* callback scheduled behind the first steps of the tasks created with it.
FileFinished(i) ==
    LET c == FileCaller(i) IN
    /\ fpc[i] = "processing"
    /\ \A j \in Files : fpc[j] # "pending"
    /\ sync[c].pc \in {"returned", "raised"}
    /\ fpc' = [fpc EXCEPT ![i] = "done"]
    /\ gpu_semaphores' = IF NUM_GPUS > 0
                         THEN [gpu_semaphores EXCEPT ![FileGpu(i)] = NoId]
                         ELSE gpu_semaphores
    /\ IF sync[c].pc = "returned"
       THEN /\ store_image(Len(processed_images) + i, i)
            /\ file_result' = [file_result EXCEPT ![i] = "ok"]
       ELSE /\ UNCHANGED processed_images
            /\ file_result' = [file_result EXCEPT ![i] = "error"]
    /\ SetSync(c, IdleSync)
    /\ UNCHANGED <<NUM_GPUS, ws_config, pipeVars, gpuVars, upc, download,
                   total_files, chunk_start, results, bcpc, batch_response,
                   batch_params, reset_all_calls>>

\* results.extend(chunk_results), and its replacement by an assignment.
ExtendReplaced(list, more) == more
Extend(list, more) == list \o more

\* chunk_results: what gather returns, in the order of the tasks.
ChunkResults(start) ==
    [k \in 1 .. (ChunkEnd(start) - start) |-> file_result[start + k - 1]]

\* len([r for r in list if 'error' in r]) and its complement.
Failed(list) == Cardinality({k \in 1 .. Len(list) : list[k] = "error"})
Successful(list) == Cardinality({k \in 1 .. Len(list) : list[k] # "error"})

\* asyncio.gather over the tasks of the chunk returns: the results are
\* appended and the device caches cleared; after the last chunk the
\* response is returned, after any other the loop sleeps.
ChunkGathered ==
    /\ bcpc = "gather"
    /\ \A i \in ChunkFiles(chunk_start) : fpc[i] = "done"
    /\ results' = Extend(results, ChunkResults(chunk_start))
    /\ IF ChunkEnd(chunk_start) < total_files
       THEN /\ bcpc' = "sleep"
            /\ UNCHANGED batch_response
       ELSE /\ bcpc' = "done"
            /\ batch_response' =
                  [results |-> results', total |-> total_files,
                   successful |-> Successful(results'),
                   failed |-> Failed(results')]
    /\ UNCHANGED <<NUM_GPUS, ws_config, storeVars, pipeVars, devVars,
                   routeVars, total_files, chunk_start, file_result,
                   batch_params, reset_all_calls>>

\* if chunk_errors > chunk_end - chunk_start * 0.5, in integers.
HighErrorRate(chunk_errors, start) ==
    2 * chunk_errors > 2 * ChunkEnd(start) - start

\* reset_all_gpus(): reset_gpu for every device, each under _reset_lock.
\* A handle that exists is deleted and recreated; a failed construction
\* leaves None.
reset_all_gpus ==
    /\ LockFree(reset_lock)
    /\ \E made \in [Gpus -> BOOLEAN] :
          instances' =
             [d \in Devices |->
                IF \E g \in Gpus : g < NUM_GPUS /\ d = GpuDev(g)
                                    /\ instances[d] # "absent"
                THEN IF made[d[2]] THEN "ready" ELSE "none"
                ELSE instances[d]]
    /\ reset_all_calls' = reset_all_calls + 1

\* The sleep after a chunk that is not the last is over: the errors of the
\* chunk are counted and tested, and the loop enters the next chunk, where
\* gather creates the tasks of its files.
ChunkSlept ==
    /\ bcpc = "sleep"
    /\ IF HighErrorRate(Failed(ChunkResults(chunk_start)), chunk_start)
       THEN reset_all_gpus
       ELSE UNCHANGED <<instances, reset_all_calls>>
    /\ chunk_start' = chunk_start + CHUNK_SIZE
    /\ fpc' = [i \in Files |->
                 IF i \in ChunkFiles(chunk_start + CHUNK_SIZE) THEN "pending"
                 ELSE fpc[i]]
    /\ bcpc' = "gather"
    /\ UNCHANGED <<NUM_GPUS, ws_config, storeVars, pipeVars, sync,
                   instance_counter, instance_lock, reset_lock, rr_selected,
                   upc, gpu_semaphores, total_files, results, file_result,
                   batch_response, batch_params>>

\* ------------------------------------------------------------ stop_workers
\* Worker g holds a job it took from the queue and has not passed to the
\* callback yet.
InFlightJob(g) == wpc[g] = "processing"

\* One None per GPU on the processing queue and one on the batch queue;
\* no put suspends.
StopWorkers ==
    /\ spc = "running"
    /\ processing_queue' =
          processing_queue \o [i \in 1 .. NUM_GPUS |-> NoneJob]
    /\ batch_queue' = Append(batch_queue, NoneBatch)
    /\ spc' = "stopping"
    /\ stop_in_flight' = {wtask[g] : g \in {h \in Gpus : InFlightJob(h)}}
    /\ UNCHANGED <<NUM_GPUS, ws_config, storeVars, chunkVars, wsVars, ackVars,
                   outVars, coordVars, workerVars, devVars, routeVars,
                   callback_calls, delivered_to, task_batch, put_order,
                   task_worker, get_order, task_done_calls>>

\* stop_workers without the gather: it returns once the sentinels are put.
StopWorkersReturnEarly ==
    /\ spc = "stopping"
    /\ spc' = "stopped"
    /\ UNCHANGED <<NUM_GPUS, ws_config, storeVars, chunkVars, wsVars, ackVars,
                   outVars, batch_queue, processing_queue, coordVars,
                   workerVars, devVars, routeVars, histVars>>

\* asyncio.gather over the worker tasks and the batch processor returns.
StopWorkersReturn ==
    /\ spc = "stopping"
    /\ \A g \in Gpus : wpc[g] \in {"exited", "absent"}
    /\ bpc \in {"exited", "absent"}
    /\ spc' = "stopped"
    /\ UNCHANGED <<NUM_GPUS, ws_config, storeVars, chunkVars, wsVars, ackVars,
                   outVars, batch_queue, processing_queue, coordVars,
                   workerVars, devVars, routeVars, histVars>>

\* ------------------------------------------------------------- pipeline
\* The server in service: the WebSocket connection, the batch processor and
\* the GPU workers.
Serving ==
    \/ WsConfig \/ WsBatchStart \/ WsImage \/ WsBatchEnd \/ WsClose
    \/ CoordDequeue \/ CoordAdvance
    \/ \E g \in Gpus : WorkerGet(g)
    \/ \E g \in Gpus : WorkerSlept(g)
    \/ \E g \in Gpus : WorkerProcessedWhole(g)
    \/ \E g \in Gpus : WorkerSendResultDone(g)
    \/ \E g \in Gpus : WorkerSendCompleteDone(g)

Next == Serving \/ StopWorkers \/ StopWorkersReturn

Spec == Init /\ [][Next]_vars

SpecServing == Init /\ [][Serving]_vars

\* WF on every step of the batch processor and of the workers: asyncio
\* resumes every coroutine whose await has completed, and the engine call
\* returns or raises.
Fairness ==
    /\ WF_vars(CoordDequeue) /\ WF_vars(CoordAdvance)
    /\ WF_vars(StopWorkersReturn)
    /\ \A g \in Gpus :
          /\ WF_vars(WorkerGet(g)) /\ WF_vars(WorkerSlept(g))
          /\ WF_vars(WorkerProcessedWhole(g))
          /\ WF_vars(WorkerSendResultDone(g))
          /\ WF_vars(WorkerSendCompleteDone(g))

FairSpec == Spec /\ Fairness
FairServing == SpecServing /\ Fairness

\* ---------------------------------------------------------- the devices
\* The entry points of process_image_sync, each with the calls it makes.
\* /api/upload:
NextUploads ==
    \/ \E u \in Uploads : UploadRequest(u) \/ UploadRespond(u)
    \/ \E u \in Uploads : RoundRobinCallStep(UploadCaller(u))

SpecUploads == Init /\ [][NextUploads]_vars

\* /api/upload-batch:
NextUploadBatch ==
    \/ UploadBatchRequest
    \/ \E i \in Files : FileStart(i) \/ FileAcquire(i) \/ FileFinished(i)
    \/ \E i \in Files : DeviceCallStep(FileCaller(i))
    \/ ChunkGathered \/ ChunkSlept

SpecUploadBatch == Init /\ [][NextUploadBatch]_vars

\* The WebSocket pipeline with the parameters clients send and with config
\* messages inside the loop.
NextConfig ==
    \/ \E c \in ClientConfigs : WsConfigWith(c)
    \/ \E d \in ConfigUpdates : WsConfigUpdate(d)
    \/ Serving

SpecConfig == Init /\ [][NextConfig]_vars

\* /api/upload with the parameters clients send.
NextValidation ==
    \/ \E u \in Uploads, c \in ClientConfigs : UploadRequestWith(u, c)
    \/ NextUploads

SpecValidation == Init /\ [][NextValidation]_vars

\* /api/upload-batch with the parameters clients send.
NextBatchValidation ==
    \/ \E c \in ClientConfigs : UploadBatchRequestWith(c)
    \/ NextUploadBatch

SpecBatchValidation == Init /\ [][NextBatchValidation]_vars

\* The image store and /api/download.
NextStorage ==
    \/ \E i \in ImageIds, d \in ImageData : StoreImage(i, d)
    \/ \E r \in ImageIds \cup {NoId} : DownloadImage(r)

SpecStorage == Init /\ [][NextStorage]_vars

\* The pipeline after one batch of k images went through batch_start, the
\* uploads, batch_end and the batch processor's fan-out.
FannedOut(k) ==
    /\ cpc = "idle"
    /\ wsOpen = TRUE /\ hpc = "recv"
    /\ ws_config = DefaultConfig
    /\ batch_counter = 1 /\ task_counter = k
    /\ current_batch_images = <<>>
    /\ batch_completion_trackers =
          [b \in {0} |-> [NewTracker EXCEPT !.total = k]]
    /\ batch_id = 0 /\ batch_tracker = 0
    /\ batch_started = {0} /\ image_received = 0 .. (k - 1)
    /\ batch_queued = {0}
    /\ result_sent = {} /\ batch_complete_sent = <<>>
    /\ batch_queue = <<>>
    /\ processing_queue = [i \in 1 .. k |-> Job(i - 1, DefaultConfig)]
    /\ current_batch_processing = 0
    /\ bpc = "wait"
    /\ batch_completion = [count |-> 0, total |-> k]
    /\ batch_completion_event = FALSE
    /\ wpc = [g \in Gpus |-> IF g < NUM_GPUS THEN "idle" ELSE "absent"]
    /\ wtask = [g \in Gpus |-> NoId]
    /\ wpath = [g \in Gpus |-> "none"]
    /\ spc = "running"
    /\ callback_calls = [t \in Tasks |-> 0]
    /\ task_batch = [t \in Tasks |-> IF t < k THEN 0 ELSE NoId]
    /\ stop_in_flight = {}
    /\ task_done_calls = [t \in Tasks |-> 0]
    /\ task_worker = [t \in Tasks |-> NoId]
    /\ put_order = [i \in 1 .. k |-> i - 1] /\ get_order = <<>>
    /\ callback_owner = 0 /\ delivered_to = [t \in Tasks |-> {}]

\* The GPU workers on a batch that has been fanned out, each call of
\* process_image_sync step by step.
InitWorkers ==
    /\ NUM_GPUS \in 1 .. MaxGpus
    /\ \E k \in 1 .. MaxTasks : FannedOut(k)
    /\ DeviceInit

NextWorkers ==
    \/ CoordAdvance
    \/ \E g \in Gpus : WorkerGet(g)
    \/ \E g \in Gpus : WorkerProcessed(g)
    \/ \E g \in Gpus : WorkerSendResultDone(g)
    \/ \E g \in Gpus : WorkerSendCompleteDone(g)
    \/ \E g \in Gpus : DeviceCallStep(WorkerCaller(g))

SpecWorkers == InitWorkers /\ [][NextWorkers]_vars

\* The GPU workers sharing one batch of up to MaxJobs jobs that has been
\* fanned out, process_image_sync taken as one step.
InitFanOut ==
    /\ NUM_GPUS \in 1 .. MaxGpus
    /\ \E k \in 1 .. MaxJobs : FannedOut(k)
    /\ DeviceInit

NextFanOut ==
    \/ CoordAdvance
    \/ \E g \in Gpus : WorkerGet(g)
    \/ \E g \in Gpus : WorkerProcessedWhole(g)
    \/ \E g \in Gpus : WorkerSendResultDone(g)
    \/ \E g \in Gpus : WorkerSendCompleteDone(g)

SpecFanOut == InitFanOut /\ [][NextFanOut]_vars

\* stop_workers invoked while the workers share a fanned-out batch and the
\* connection may close.
NextShutdown ==
    \/ NextFanOut \/ CoordDequeue \/ WsClose
    \/ \E g \in Gpus : WorkerSlept(g)
    \/ StopWorkers \/ StopWorkersReturn

SpecShutdown == InitWorkers /\ [][NextShutdown]_vars

\* The same with each call of process_image_sync step by step: one worker
\* on a batch of several jobs, or several workers and one job.
InitWorkersShutdown ==
    /\ NUM_GPUS \in 1 .. MaxGpus
    /\ \E k \in 1 .. MaxTasks : (NUM_GPUS = 1 \/ k = 1) /\ FannedOut(k)
    /\ DeviceInit

NextWorkersShutdown ==
    \/ NextWorkers \/ CoordDequeue \/ WsClose
    \/ \E g \in Gpus : WorkerSlept(g)
    \/ StopWorkers \/ StopWorkersReturn

SpecWorkersShutdown == InitWorkersShutdown /\ [][NextWorkersShutdown]_vars

\* A GPU worker on the one job of a fanned-out batch while /api/upload
\* requests arrive: the two entry points share the devices.
InitShared ==
    /\ NUM_GPUS \in 1 .. MaxGpus
    /\ FannedOut(1)
    /\ DeviceInit

NextShared == NextWorkers \/ NextUploads

SpecShared == InitShared /\ [][NextShared]_vars

\* ------------------------------------------------------------ vocabulary
\* Tasks submitted under batch b: fanned out already, or waiting in the
\* batch queue.
JobsOf(b) ==
    {t \in Tasks : task_batch[t] = b} \cup
    {t \in Tasks : \E i \in DOMAIN batch_queue :
        /\ batch_queue[i].batch_id = b
        /\ \E k \in DOMAIN batch_queue[i].images :
              batch_queue[i].images[k] = t}

CompleteMessages(b) ==
    {i \in DOMAIN batch_complete_sent : batch_complete_sent[i].batchId = b}

WorkerRunning(g) == wpc[g] \notin {"exited", "absent"}

\* ------------------------------------------------------------------ C1
\* C1: the result callback of a job is invoked at most once, whatever
\* process_image_sync, store_image and the callback itself do.
NoDuplicateResult == \A t \in Tasks : callback_calls[t] <= 1

\* ------------------------------------------------------------------ C2
\* C2: every job put on the processing queue eventually has its callback
\* invoked.
EveryJobDelivered ==
    \A t \in Tasks : (task_batch[t] # NoId) ~> (callback_calls[t] >= 1)

\* C2, the part a finite run refutes: a job that is on the processing queue
\* can still be taken, i.e. some gpu_worker has not left its loop.
NoJobStranded ==
    \A i \in DOMAIN processing_queue :
        processing_queue[i].stop \/ \E g \in Gpus : WorkerRunning(g)

\* ------------------------------------------------------------------ C3
\* C3: batch_complete is sent exactly once per queued batch; here the half
\* that a run can break at a state: never more than once.
BatchCompleteOnce ==
    \A b \in batch_queued : Cardinality(CompleteMessages(b)) <= 1

\* ------------------------------------------------------------------ C4
\* C4: every batch_complete message has successful + failed = total, and
\* total is the number of jobs queued for the batch it names.
BatchCompleteCounts ==
    \A i \in DOMAIN batch_complete_sent :
        LET m == batch_complete_sent[i] IN
        /\ m.successful + m.failed = m.total
        /\ m.batchId \in batch_queued =>
              m.total = Cardinality(JobsOf(m.batchId))

\* ------------------------------------------------------------------ C5
\* C5: while a job of a batch has not had its result delivered, neither is
\* the completion event of that batch set nor its batch_complete sent.
Delivered(t) == t \in result_sent

CompletionAfterAllJobs ==
    /\ (bpc = "wait" /\ batch_completion_event) =>
          \A t \in JobsOf(current_batch_processing) :
              callback_calls[t] >= 1
    /\ \A b \in batch_queued :
          CompleteMessages(b) # {} => \A t \in JobsOf(b) : Delivered(t)

\* ------------------------------------------------------------------ C6
\* C6: no job of batch B is put on the processing queue before the
\* batch_complete of a batch A submitted earlier has been sent.
BatchSequencing ==
    \A t \in Tasks : \A a \in batch_queued :
        (task_batch[t] # NoId /\ a < task_batch[t]) =>
            CompleteMessages(a) # {}

\* ------------------------------------------------------------------ C7
\* The handler's steps together with the answers the claim names.
BatchStartAnswered == WsBatchStart /\ batch_counter \in batch_started'
ImageAnswered == WsImage /\ task_counter \in image_received'
BatchEndAnswered ==
    /\ WsBatchEnd
    /\ batch_id' \in batch_queued'
    /\ Len(batch_queue') = Len(batch_queue) + 1

\* C7: whenever the handler is at its receive and the connection is open,
\* whatever the batch processor and the workers are doing, each message of
\* the protocol the client may send next is handled and answered in that
\* step (batch_started, image_received, batch_queued), and the put on the
\* batch queue does not wait.
Pipelining ==
    (hpc = "recv" /\ wsOpen) =>
        /\ (ClientMaySend("batch_start") /\ batch_counter < MaxBatches)
              => ENABLED BatchStartAnswered
        /\ (ClientMaySend("image_metadata") /\ task_counter < MaxTasks)
              => ENABLED ImageAnswered
        /\ (ClientMaySend("batch_end") /\ current_batch_images # <<>>
              /\ (batch_counter - 1) \in DOMAIN batch_completion_trackers)
              => ENABLED BatchEndAnswered

\* C7 witness: batch 0 is the current batch and a worker is processing
\* its job, batch 1 is being uploaded with an image acknowledged, and the
\* handler can take batch 1's batch_end and queue it now.
PipeliningWitness ==
    /\ current_batch_processing = 0
    /\ \E g \in Gpus : wpc[g] = "processing" /\ task_batch[wtask[g]] = 0
    /\ cpc = "uploading" /\ batch_id = 1 /\ 1 \in batch_started
    /\ \E i \in DOMAIN current_batch_images :
          current_batch_images[i] \in image_received
    /\ ENABLED BatchEndAnswered

\* ------------------------------------------------------------------ C8
\* The call of c has an engine call in flight on device d.
InFlight(c, d) == sync[c].pc = "engine" /\ sync[c].dev = d

\* C8: at no time are two engine calls in flight on the same device,
\* whichever entry points started them, the cpu device included.
DeviceMutualExclusion ==
    \A d \in Devices : \A c1, c2 \in Callers :
        (InFlight(c1, d) /\ InFlight(c2, d)) => c1 = c2

\* ------------------------------------------------------------------ C9
RECURSIVE SumUpTo(_, _)
SumUpTo(f, n) == IF n = 0 THEN 0 ELSE f[n - 1] + SumUpTo(f, n - 1)

\* C9: after any M round-robin selections of get_instance(gpu_id=None) over
\* K >= 1 GPUs, made by concurrent threads, every GPU has been selected
\* floor(M/K) or ceil(M/K) times.
RoundRobinBalance ==
    NUM_GPUS >= 1 =>
        LET K == NUM_GPUS
            M == SumUpTo(rr_selected, K)
        IN  \A g \in 0 .. (K - 1) :
               rr_selected[g] \in {M \div K, (M + K - 1) \div K}

\* C9 witness: two GPUs, both selected already, and one thread holds
\* _instance_lock in the middle of its selection while another thread is
\* at the entry of get_instance(None).
RoundRobinWitness ==
    /\ NUM_GPUS = 2
    /\ rr_selected[0] >= 1 /\ rr_selected[1] >= 1
    /\ \E c1, c2 \in Callers :
          /\ c1 # c2
          /\ sync[c1].pc = "advance" /\ instance_lock = c1
          /\ sync[c2].pc = "get" /\ sync[c2].gpu_id = NoId

\* ------------------------------------------------------------------ C10
\* C10, first part: no call dispatches to the engine more than max_retries
\* (2) times.
RetryBounded == \A c \in Callers : sync[c].dispatches <= max_retries

\* C10, second part: an attempt after the first follows only failures with
\* the transient signature.
RetryOnlyOnTransient ==
    \A c \in Callers :
        sync[c].attempt >= 1 =>
            /\ Len(sync[c].outcomes) = sync[c].attempt
            /\ \A i \in DOMAIN sync[c].outcomes :
                  IsTransient(sync[c].outcomes[i])

\* C10: a job is attempted again only after a device reset: a call that
\* has dispatched to the engine a second time has reset its device before.
RetryOnlyAfterReset ==
    \A c \in Callers : sync[c].dispatches >= 2 => sync[c].resets >= 1

\* ------------------------------------------------------------------ C11
\* The first two attempts of the call failed with the transient signature.
TransientTwice(s) ==
    /\ Len(s.outcomes) >= 2
    /\ IsTransient(s.outcomes[1]) /\ IsTransient(s.outcomes[2])

BatchDone(b) ==
    JobsOf(b) # {} /\ \A t \in JobsOf(b) : callback_calls[t] >= 1

\* Jobs of batch b that worker g took.
TakenBy(b, g) == {t \in Tasks : task_batch[t] = b /\ task_worker[t] = g}

\* C12: a batch whose number of jobs is a multiple of the number of
\* devices (9 jobs on 3 devices) is shared evenly: once the batch is done,
\* every worker has processed jobs / devices of its jobs (3 each).
BatchSharedEvenly ==
    \A b \in batch_queued :
        (/\ NUM_GPUS > 0 /\ BatchDone(b)
         /\ Cardinality(JobsOf(b)) % NUM_GPUS = 0)
        => \A g \in Workers :
              Cardinality(TakenBy(b, g))
                 = Cardinality(JobsOf(b)) \div NUM_GPUS

\* ------------------------------------------------------------------ C13
\* C13: shutdown terminates: once stop_workers has put its sentinels, every
\* gpu_worker and the batch processor exit and stop_workers returns,
\* whatever is queued or being processed at that time.
ShutdownTerminates == (spc = "stopping") ~> (spc = "stopped")

\* ------------------------------------------------------------------ C14
\* C14: the jobs that were in flight on workers when stop_workers was
\* invoked have completed and had their result callback invoked by the
\* time stop_workers returns.
InFlightJobsFinishBeforeStop ==
    spc = "stopped" => \A t \in stop_in_flight : callback_calls[t] >= 1

InFlightJobsFinishWitness ==
    /\ spc = "stopped" /\ stop_in_flight # {}
    /\ \A t \in stop_in_flight : callback_calls[t] >= 1

\* ------------------------------------------------------------------ C15
\* Items of queue q that are jobs or batches, not shutdown sentinels.
Accepted(q) == Cardinality({i \in DOMAIN q : ~q[i].stop})

\* C15: once stop_workers has begun, no step adds a job to the processing
\* queue or a batch to the batch queue, neither the WebSocket handler nor
\* the fan-out of batch_processor.
NoNewJobsAfterShutdown ==
    [][spc # "running"
         => /\ Accepted(processing_queue') <= Accepted(processing_queue)
            /\ Accepted(batch_queue') <= Accepted(batch_queue)]_vars

\* ------------------------------------------------------------------ C16
\* batch_processor is waiting for the completion event of batch b.
AwaitingBatch(b) ==
    /\ bpc = "wait" /\ current_batch_processing = b
    /\ batch_completion.total > 0

\* C16: every non-empty batch that batch_processor dequeued reaches its
\* terminal state, the completion event fires and the coordinator moves
\* on, whatever the outcomes of its jobs and whether the result callbacks
\* return or raise.
BatchReachesTerminalState ==
    \A b \in Batches : AwaitingBatch(b) ~> ~AwaitingBatch(b)

\* ------------------------------------------------------------------ C17
\* C17: get_instance never returns None: also after reset_gpu(d) failed to
\* recreate the handle of device d, the next get_instance(d) constructs a
\* new handle and the caller holds a usable one.
GetInstanceReturnsHandle ==
    \A c \in Callers :
        sync[c].pc = "have" => instances[sync[c].dev] = "ready"

\* ------------------------------------------------------------------ C18
\* Call c is inside reset_gpu's critical section, resetting device d.
Resetting(c, d) == sync[c].pc = "resetting" /\ d = GpuDev(sync[c].gpu_id)

\* C18: a device is never used and reset at the same time: no engine call
\* is in flight on device d while a reset_gpu(d) holds the reset lock,
\* whichever entry points started the call and the reset.
NoUseDuringReset ==
    \A d \in Devices : \A c1, c2 \in Callers :
        ~(Resetting(c1, d) /\ InFlight(c2, d))

\* ------------------------------------------------------------------ C19
\* Call c has called reset_gpu for device d and has not entered the
\* critical section yet.
AtReset(c, d) ==
    /\ sync[c].pc = "reset" /\ sync[c].gpu_id # NoId /\ NUM_GPUS > 0
    /\ d = GpuDev(sync[c].gpu_id)

\* C19: resets of different devices proceed independently: a reset of
\* device d2 can enter its critical section while a reset of another
\* device d1 is inside its own, so that both are inside at once.
ResetsIndependent ==
    \A c1, c2 \in Callers : \A d1, d2 \in Devices :
        (Resetting(c1, d1) /\ AtReset(c2, d2) /\ d1 # d2)
        => ENABLED ResetGpuEnter(c2)

\* ------------------------------------------------------------------ C20
\* C20: CPU fallback: with NUM_GPUS = 0 one worker on the cpu device is in
\* service, so every batch put on the batch queue is processed and each
\* of its jobs gets a terminal result.
CpuFallbackServesBatches ==
    \A b \in Batches :
        (NUM_GPUS = 0 /\ b \in batch_queued) ~> BatchDone(b)

\* ------------------------------------------------------------------ C22
\* C22: failures never cross the worker boundary.  A gpu_worker leaves its
\* loop only by dequeuing the None sentinel, whatever the engine,
\* store_image or the result callback raised; and when process_image_sync
\* raised, the job's callback is invoked with a result of success false.
FailuresStayInWorker ==
    [][\A g \in Gpus :
          /\ (wpc[g] # "exited" /\ wpc'[g] = "exited")
             => /\ wpc[g] \in {"idle", "sleeping", "send_result",
                                "send_complete"}
                /\ processing_queue # <<>> /\ Head(processing_queue).stop
                /\ processing_queue' = Tail(processing_queue)
          /\ (/\ wpc[g] = "processing" /\ wpc'[g] # "processing"
              /\ sync[WorkerCaller(g)].pc = "raised")
             => /\ callback_calls'[wtask[g]] > callback_calls[wtask[g]]
                /\ batch_completion_trackers'[batch_tracker].results.failed
                      = batch_completion_trackers[batch_tracker]
                           .results.failed + 1
                /\ batch_completion_trackers'[batch_tracker].results.ok
                      = batch_completion_trackers[batch_tracker]
                           .results.ok]_vars

\* A worker whose callback raised is still in its loop, after a job whose
\* engine call had raised.
FailuresStayInWorkerWitness ==
    \E g \in Gpus : \E t \in Tasks :
        /\ wpc[g] = "sleeping" /\ ~wsOpen
        /\ task_worker[t] = g /\ callback_calls[t] = 1
        /\ batch_completion_trackers[batch_tracker].results.failed = 1
        /\ batch_completion_trackers[batch_tracker].results.ok = 0

\* ------------------------------------------------------------------ C25
\* C25: among the jobs dispatched by the GPU workers at most one
\* processing call is in flight per device: the engine calls of two
\* different workers are never in flight on the same device handle.
WorkerDeviceExclusion ==
    \A d \in Devices : \A g1, g2 \in Gpus :
        (InFlight(WorkerCaller(g1), d) /\ InFlight(WorkerCaller(g2), d))
        => g1 = g2

\* ------------------------------------------------------------------ C26
\* C26: the completion counters count each job once: the count of
\* batch_processor and the "completed" of every queued batch's tracker
\* never exceed the batch total, and "completed" is the number of jobs of
\* the batch whose callback was invoked.
CompletedCountBounded ==
    /\ batch_completion.count <= batch_completion.total
    /\ \A b \in batch_queued :
          /\ batch_completion_trackers[b].completed
                <= batch_completion_trackers[b].total
          /\ batch_completion_trackers[b].completed
                = Cardinality({t \in JobsOf(b) : callback_calls[t] >= 1})

\* A worker took job t from the processing queue.
Dequeued(t) == task_worker[t] # NoId

\* A worker is still inside its loop iteration for job t.
Held(t) == \E g \in Gpus : wtask[g] = t

\* C27: for every job a gpu_worker dequeues, task_done is called exactly
\* once -- not before the worker leaves the job, and once when it has left
\* it, whether the job succeeded, failed or its callback raised; the number
\* of task_done calls never exceeds the number of dequeued jobs.
AcknowledgedExactlyOnce ==
    /\ \A t \in Tasks :
          task_done_calls[t] = IF Dequeued(t) /\ ~Held(t) THEN 1 ELSE 0
    /\ SumUpTo(task_done_calls, Cardinality(Tasks))
          <= Cardinality({t \in Tasks : Dequeued(t)})

\* One job was delivered on an open connection and another job's callback
\* raised in the try block and again in the except handler; each has been
\* acknowledged once.
AcknowledgedExactlyOnceWitness ==
    \E t1, t2 \in Tasks :
        /\ t1 \in result_sent /\ callback_calls[t1] = 1
        /\ task_done_calls[t1] = 1
        /\ t2 \notin result_sent /\ callback_calls[t2] = 2
        /\ task_done_calls[t2] = 1

\* C28: device-level resources are released on every exit path: whenever a
\* worker's call of process_image_sync for a GPU device has returned or
\* raised after at least one engine attempt, its last attempt ended with
\* the cache release (synchronize and empty_cache) on that device.
ReleasedOnEveryExit ==
    \A g \in Gpus :
        LET s == sync[WorkerCaller(g)] IN
        (NUM_GPUS > 0 /\ s.pc \in {"returned", "raised"} /\ s.dispatches >= 1)
            => s.released

\* C24: download_image with an imageId answers with the image stored under
\* exactly that id; the image of another id is returned only when no
\* imageId is given (then the latest one), and a request that matches no
\* image gets 404.
DownloadSemantics ==
    [][\A r \in ImageIds \cup {NoId} :
          DownloadImage(r) =>
             download' =
               IF r # NoId
               THEN IF HasImage(r)
                    THEN [imageId |-> r, status |-> "200",
                          image |-> get_image(r)]
                    ELSE [imageId |-> r, status |-> "404", image |-> NoImage]
               ELSE IF processed_images = <<>>
                    THEN [imageId |-> r, status |-> "404", image |-> NoImage]
                    ELSE [imageId |-> r, status |-> "200",
                          image |-> get_latest_image]]_vars

\* C23: the /api/upload-batch response has successful + failed = total =
\* the number of uploaded files and exactly one entry in results per
\* uploaded file (the entry of file i is what process_with_index(i)
\* returned), for any number of chunks and any mix of failures.
BatchResponseCounts ==
    bcpc = "done" =>
        /\ batch_response.successful + batch_response.failed
              = batch_response.total
        /\ batch_response.total = total_files
        /\ Len(batch_response.results) = total_files
        /\ \A i \in Files :
              i < total_files => batch_response.results[i + 1] = file_result[i]

\* A request of more than one chunk was answered with successes and
\* failures among its results.
BatchResponseCountsWitness ==
    /\ bcpc = "done" /\ total_files > CHUNK_SIZE
    /\ batch_response.successful >= 1 /\ batch_response.failed >= 1

\* C29: on a machine with GPUs, after a chunk of /api/upload-batch that is
\* not the last, reset_all_gpus is invoked whenever more than 50% of the
\* chunk's results (errors against chunk_end - chunk_start) are errors.
HighErrorRateResets ==
    [][(NUM_GPUS > 0 /\ bcpc = "sleep" /\ bcpc' = "gather"
          /\ 2 * Failed(ChunkResults(chunk_start))
                > ChunkEnd(chunk_start) - chunk_start)
         => reset_all_calls' = reset_all_calls + 1]_vars

\* The parameters of the batches and jobs on the two queues.
QueuedParams ==
    {batch_queue[k].params :
        k \in {j \in 1 .. Len(batch_queue) : ~batch_queue[j].stop}}
    \cup {processing_queue[k].params :
        k \in {j \in 1 .. Len(processing_queue) : ~processing_queue[j].stop}}

\* The parameters of the calls of process_image_sync submitted to the
\* executor and not finished.
DispatchedParams ==
    {sync[c].params :
        c \in {b \in Callers : sync[b].pc \notin {"idle", "returned", "raised"}}}

\* C21: on every submission path, work whose backgroundColor, fileType or
\* watermark is invalid (also after the letter case is normalised) is
\* rejected before queueing: it is never on a queue and never dispatched.
InvalidNeverQueued ==
    \A c \in QueuedParams \cup DispatchedParams : ValidParams(Normalize(c))

\* C30: a config message inside the loop changes no job already on the
\* processing queue, and every batch that waits in the batch queue behind
\* the batch in processing carries the updated parameters afterwards; a
\* batch being uploaded gets the handler's parameters at its batch_end.
ConfigAppliesToUndispatched ==
    [][/\ (NUM_GPUS > 0 /\ hpc = "recv" /\ ws_config' # ws_config)
           => /\ processing_queue' = processing_queue
              /\ bpc = "wait" =>
                    \A k \in 1 .. Len(batch_queue') :
                        ~batch_queue'[k].stop
                            => batch_queue'[k].params = ws_config'
       /\ Len(batch_queue') > Len(batch_queue)
           => batch_queue'[Len(batch_queue')].params = ws_config]_vars

\* ------------------------------------------------------------------ C31
\* Sequence s is a prefix of sequence t.
IsPrefix(s, t) == Len(s) <= Len(t) /\ \A k \in 1 .. Len(s) : s[k] = t[k]

\* The position of job t in put_order (0 when it was not put).
PutIndex(t) ==
    IF \E k \in 1 .. Len(put_order) : put_order[k] = t
    THEN CHOOSE k \in 1 .. Len(put_order) : put_order[k] = t
    ELSE 0

\* C31: per-device FIFO: of two jobs the same gpu_worker took, the one put
\* on the processing queue first was taken (and passed to the executor)
\* first; and no job is taken before every job queued earlier has been
\* taken by some worker.
PerDeviceFifo ==
    /\ IsPrefix(get_order, put_order)
    /\ \A i, j \in 1 .. Len(get_order) :
          (i < j /\ task_worker[get_order[i]] = task_worker[get_order[j]])
              => PutIndex(get_order[i]) < PutIndex(get_order[j])

\* One worker took two jobs, and another worker took a job between them.
PerDeviceFifoWitness ==
    \E i, j, k \in 1 .. Len(get_order) :
        /\ i < k /\ k < j
        /\ task_worker[get_order[i]] = task_worker[get_order[j]]
        /\ task_worker[get_order[k]] # task_worker[get_order[i]]

\* ------------------------------------------------------------------ C32
\* Job t is on the processing queue.
OnProcessingQueue(t) ==
    \E i \in DOMAIN processing_queue :
        ~processing_queue[i].stop /\ processing_queue[i].task = t

\* Batch b is in processing: one of its jobs is on the processing queue or
\* in the hands of a worker.
InProcessing(b) ==
    \E t \in Tasks : task_batch[t] = b /\ (OnProcessingQueue(t) \/ Held(t))

\* batch_processor is between the dequeue of a batch and its finally block.
CoordInBatch == bpc = "wait"

\* C32: strict batch order with a single batch in processing.  The batch
\* queue grows at its tail and batch_processor starts the batch at its
\* head; every job queued or in the hands of a worker belongs to the one
\* batch batch_processor is in; and _current_batch_processing is that
\* batch's id from its dequeue until batch_processor leaves it, and None at
\* every other time.
StrictBatchOrder ==
    /\ [](\A t \in Tasks :
            (OnProcessingQueue(t) \/ Held(t))
                => CoordInBatch /\ task_batch[t] = current_batch_processing)
    /\ [](\A a, b \in Batches : (InProcessing(a) /\ InProcessing(b)) => a = b)
    /\ [](CoordInBatch <=> current_batch_processing # NoId)
    /\ [][/\ batch_queue' # batch_queue
             => \/ batch_queue # <<>> /\ batch_queue' = Tail(batch_queue)
                \/ /\ Len(batch_queue') = Len(batch_queue) + 1
                   /\ SubSeq(batch_queue', 1, Len(batch_queue)) = batch_queue
          /\ (/\ batch_queue # <<>> /\ batch_queue' = Tail(batch_queue)
              /\ ~Head(batch_queue).stop)
             => /\ current_batch_processing' = Head(batch_queue).batch_id
                /\ put_order' = put_order \o Head(batch_queue).images
          /\ put_order' # put_order
             => batch_queue # <<>> /\ batch_queue' = Tail(batch_queue)
          /\ (CoordInBatch /\ CoordInBatch')
             => \/ current_batch_processing' = current_batch_processing
                \/ batch_queue' # batch_queue]_vars

\* The second batch is in processing, taken from a batch queue that held
\* it while the first batch was in processing; the first batch is done.
StrictBatchOrderWitness ==
    /\ current_batch_processing = 1 /\ InProcessing(1)
    /\ \A t \in Tasks : task_batch[t] = 0 => callback_calls[t] >= 1
    /\ \E t \in Tasks : task_batch[t] = 0

\* ------------------------------------------------------------------ C33
\* Call c named its device and get_instance has returned a handle to it.
ExplicitHandle(c) ==
    /\ NUM_GPUS > 0 /\ sync[c].gpu_id # NoId
    /\ sync[c].pc \in {"have", "engine"}

\* C33: get_instance(gpu_id) with an explicit gpu_id returns the handle
\* stored for device gpu_id % NUM_GPUS and the handle of no other device,
\* also when the lazy construction of that device's handle failed.
ExplicitHandleBound ==
    \A c \in Callers :
        ExplicitHandle(c) => sync[c].dev = GpuDev(sync[c].gpu_id % NUM_GPUS)

\* The weaker statement that does hold: the handle returned is never the
\* one stored for another GPU index; it is the device's own or the shared
\* 'cpu' fallback.
ExplicitHandleNotOtherGpu ==
    \A c \in Callers :
        ExplicitHandle(c) => sync[c].dev \in {GpuDev(sync[c].gpu_id % NUM_GPUS),
                                               CpuDev}

\* ------------------------------------------------------------------ C34
\* Call c goes through reset_gpu's first test in this step: it returns at
\* once or enters the reset proper.
ResetCalled(c) == sync[c].pc = "reset" /\ sync'[c].pc # "reset"

\* Call c passes its job to the engine again in this step.
Redispatched(c) ==
    sync[c].pc = "have" /\ sync'[c].pc = "engine" /\ sync[c].attempt > 0

\* C34: on a transient failure with attempts left the reset is applied to
\* the device on which the attempt failed, and the job is dispatched again
\* to that same device, for a call that names its device and for a call
\* with gpu_id None.
RetryOnFailedDevice ==
    [][\A c \in Callers :
          /\ ResetCalled(c)
             => /\ sync'[c].resets = sync[c].resets + 1
                /\ sync[c].dev = GpuDev(sync[c].gpu_id)
          /\ Redispatched(c) => sync[c].dev = sync[c].failed_dev]_vars

\* The part about the second dispatch alone.
RedispatchOnFailedDevice ==
    [][\A c \in Callers :
          Redispatched(c) => sync[c].dev = sync[c].failed_dev]_vars

\* What does hold: the claim for the calls that name their device and were
\* not handed the 'cpu' fallback.
RetryOnFailedDeviceExplicit ==
    [][\A c \in Callers :
          (sync[c].gpu_id # NoId
               /\ CpuDev \notin {sync[c].dev, sync[c].failed_dev})
          => /\ ResetCalled(c)
                => /\ sync'[c].resets = sync[c].resets + 1
                   /\ sync[c].dev = GpuDev(sync[c].gpu_id)
             /\ Redispatched(c) => sync[c].dev = sync[c].failed_dev]_vars

\* ------------------------------------------------------------------ C35
\* The jobs of batch b: two task ids per batch.
OwnSeq(b) ==
    [i \in 1 .. Cardinality({t \in Tasks : t \div 2 = b}) |-> 2 * b + i - 1]

\* Image list s with an entry that does not unpack after its first k
\* entries.
WithBad(s, k) == SubSeq(s, 1, k) \o <<BadEntry>> \o SubSeq(s, k + 1, Len(s))

\* What may arrive on the batch queue as batch b: an item that is no
\* 6-tuple, a batch of zero or more images, or a batch with an image entry
\* that is no 3-tuple.
CoordItems(b) ==
    {MalformedBatch(b)}
    \cup {Batch(b, SubSeq(OwnSeq(b), 1, n), DefaultConfig) :
             n \in 0 .. Len(OwnSeq(b))}
    \cup {Batch(b, WithBad(OwnSeq(b), k), DefaultConfig) :
             k \in 0 .. Len(OwnSeq(b))}

\* await _batch_queue.put(item) by a producer that registers batch b as the
\* handler's batch_start and batch_end do (tracker, batch_id) and puts an
\* item batch_processor may not be able to unpack.
EnqueueItem(b, item) ==
    /\ b = Cardinality(batch_queued) /\ b \in Batches
    /\ spc = "running" /\ ~CoordRunning
    /\ batch_queue' = Append(batch_queue, item)
    /\ batch_started' = batch_started \cup {b}
    /\ batch_queued' = batch_queued \cup {b}
    /\ batch_counter' = b + 1
    /\ batch_id' = b /\ batch_tracker' = b
    /\ batch_completion_trackers' =
          [a \in DOMAIN batch_completion_trackers \cup {b} |->
              IF a = b
              THEN [NewTracker EXCEPT !.total = Len(GoodPrefix(item.images))]
              ELSE batch_completion_trackers[a]]
    /\ UNCHANGED <<NUM_GPUS, ws_config, storeVars, chunkVars, cpc, wsOpen,
                   hpc, task_counter, current_batch_images, image_received,
                   outVars, processing_queue, coordVars, workerVars, devVars,
                   routeVars, spc, histVars>>

\* batch_processor and the GPU workers fed with such items.
NextCoordinator ==
    \/ \E b \in Batches : \E item \in CoordItems(b) : EnqueueItem(b, item)
    \/ CoordDequeue \/ CoordAdvance \/ CoordSlept \/ CoordFailed
    \/ \E g \in Gpus : WorkerGet(g)
    \/ \E g \in Gpus : WorkerProcessedWhole(g)
    \/ \E g \in Gpus : WorkerSendResultDone(g)
    \/ \E g \in Gpus : WorkerSendCompleteDone(g)

InitCoordinator ==
    /\ NUM_GPUS \in 1 .. MaxGpus
    /\ PipeInit /\ DeviceInit

SpecCoordinator == InitCoordinator /\ [][NextCoordinator]_vars

\* C35: a coordination error while a batch is handled (an item that is no
\* batch tuple, or an image entry that does not unpack after some jobs of
\* the batch were put on the processing queue) stays within that batch:
\* the result of every job goes to the callback of the job's own batch
\* only, no job of another batch is queued or executing while
\* batch_processor is in a batch, and the completion of the batch
\* batch_processor is in counts that batch's jobs only.
CoordinationErrorContained ==
    /\ \A t \in Tasks : delivered_to[t] \subseteq {task_batch[t]}
    /\ \A t \in Tasks :
          (current_batch_processing # NoId
               /\ (OnProcessingQueue(t) \/ Held(t)))
          => task_batch[t] = current_batch_processing
    /\ CoordInBatch
       => /\ batch_completion.count
                <= Cardinality({t \in Tasks :
                       /\ task_batch[t] = current_batch_processing
                       /\ callback_calls[t] >= 1})
          /\ batch_completion_event
                => \A t \in Tasks :
                      task_batch[t] = current_batch_processing
                          => callback_calls[t] >= 1

\* ------------------------------------------------------------------ C36
\* The callback of job t is called in this step.
CallbackCall(t) == callback_calls'[t] > callback_calls[t]

\* C36: tracker ownership.  The callback created at batch A's batch_end
\* increments only A's tracker and reports A's batchId in batch_complete:
\* a tracker's "completed" changes only in a call of the callback for a job
\* of that tracker's batch, and a batch_complete message carries the id of
\* the batch of the job whose callback sends it, also when the handler has
\* gone through another batch's batch_start and batch_end in the meantime.
TrackerOwnership ==
    [][/\ \A b \in DOMAIN batch_completion_trackers :
             batch_completion_trackers'[b].completed
                 # batch_completion_trackers[b].completed
             => /\ \E t \in Tasks : CallbackCall(t)
                /\ \A t \in Tasks : CallbackCall(t) => task_batch[t] = b
       /\ \A g \in Gpus :
             (wpc[g] = "send_result" /\ wpc'[g] = "send_complete")
             => batch_complete_sent'[Len(batch_complete_sent')].batchId
                    = task_batch[wtask[g]]]_vars

\* The same while the handler has started no other batch since the batch
\* of the job: then the shared names still denote the job's batch.
TrackerOwnershipOneBatch ==
    [][batch_counter = 1
       => /\ \A b \in DOMAIN batch_completion_trackers :
                batch_completion_trackers'[b].completed
                    # batch_completion_trackers[b].completed
                => \A t \in Tasks : CallbackCall(t) => task_batch[t] = b
          /\ \A g \in Gpus :
                (wpc[g] = "send_result" /\ wpc'[g] = "send_complete")
                => batch_complete_sent'[Len(batch_complete_sent')].batchId
                       = task_batch[wtask[g]]]_vars

\* ------------------------------------------------------------------ C37
\* get_instance in call c constructs the handle of its key in this step.
Constructs(c) ==
    /\ sync[c].pc = "create" /\ sync'[c].pc = "have"
    /\ sync'[c].dev = Key(sync[c])

\* No call has reset a device.
NoResets == \A c \in Callers : sync[c].resets = 0

\* C37: lazy creation happens once.  Absent resets, a handle is
\* constructed for a device only while the device has none, so at most one
\* handle is ever constructed per device, whatever the interleaving of the
\* get_instance calls of the executor threads.
LazyCreationOnce ==
    [][\A c \in Callers :
          (NoResets /\ Constructs(c))
              => instances[Key(sync[c])] = "absent"]_vars

\* ------------------------------------------------------------------ C38
\* The files of the /api/upload-batch request that were processed and
\* stored.
StoredFiles == {i \in Files : file_result[i] = "ok"}

\* C38: stored results do not overwrite each other.  Within one
\* /api/upload-batch request the ids given to two different successfully
\* processed files (len(processed_images) + idx when the file completes)
\* are distinct, for any completion order: every stored file has its own
\* entry of processed_images, holding that file's image.
StoredIdsDistinct ==
    /\ Len(processed_images) = Cardinality(StoredFiles)
    /\ \A i \in StoredFiles :
          \E k \in 1 .. Len(processed_images) : processed_images[k].data = i

\* The same while at most one file of the request has been stored.
StoredIdsDistinctSingle ==
    Cardinality(StoredFiles) <= 1 => StoredIdsDistinct

\* ------------------------------------------------------------------ C39
\* WF on every step of batch_processor and of the workers, as in Fairness.
FairCoordinator ==
    /\ SpecCoordinator
    /\ WF_vars(CoordDequeue) /\ WF_vars(CoordAdvance)
    /\ WF_vars(CoordSlept) /\ WF_vars(CoordFailed)
    /\ \A g \in Gpus :
          /\ WF_vars(WorkerGet(g))
          /\ WF_vars(WorkerProcessedWhole(g))
          /\ WF_vars(WorkerSendResultDone(g))
          /\ WF_vars(WorkerSendCompleteDone(g))

\* batch_processor is in batch b, whose image list is empty.
InEmptyBatch(b) ==
    /\ CoordInBatch /\ current_batch_processing = b
    /\ batch_completion.total = 0

\* No item the handler put on the batch queue is a batch without images.
NoEmptyBatchQueued ==
    \A i \in DOMAIN batch_queue :
        batch_queue[i].stop \/ batch_queue[i].images # <<>>

\* C39: a batch with zero jobs never stalls the coordinator: a batch with
\* an empty image list that reaches batch_processor completes, so that
\* batch_processor leaves it and goes on to dequeue the next batch.
EmptyBatchCompletes ==
    \A b \in Batches : InEmptyBatch(b) ~> ~InEmptyBatch(b)

\* ------------------------------------------------------------------ C40
\* A connection whose client sends batch_start, image and batch_end
\* messages in any order.
InitFreeClient ==
    /\ NUM_GPUS \in 0 .. MaxGpus
    /\ PipeInitWith("free") /\ DeviceInit

SpecFreeClient == InitFreeClient /\ [][Serving]_vars

\* Image t is in a batch that was put on the batch queue.
InQueuedBatch(t) ==
    \/ task_batch[t] # NoId
    \/ \E i \in DOMAIN batch_queue :
          \E k \in DOMAIN batch_queue[i].images : batch_queue[i].images[k] = t

\* The number of batches on the batch queue that hold image t.
BatchesHolding(t) ==
    Cardinality({i \in DOMAIN batch_queue :
        \E k \in DOMAIN batch_queue[i].images : batch_queue[i].images[k] = t})

\* C40: every image acknowledged with image_received is included in
\* exactly one batch put on the batch queue once the connection has sent
\* batch_end, for every order of the batch_start, image and batch_end
\* messages: when a batch_end has been handled, every acknowledged image is
\* in a queued batch (none was discarded by a batch_start or left behind
\* by a batch_end with an unknown batchId), no image is in two batches,
\* and the batch_end was answered with batch_queued, which the handler
\* sends with the put.
AcknowledgedImagesQueued ==
    [][WsBatchEnd
         => /\ \A t \in image_received : InQueuedBatch(t)'
            /\ \A t \in Tasks : BatchesHolding(t)' <= 1
            /\ batch_queue' # batch_queue]_vars

\* The part that holds for a client that follows the protocol: its
\* acknowledged images are queued by the batch_end that follows them.
AcknowledgedImagesQueuedInProtocol ==
    [][WsBatchEnd
         => /\ \A t \in image_received : InQueuedBatch(t)'
            /\ \A t \in Tasks : BatchesHolding(t)' <= 1]_vars

============================================================================
